---- MODULE Spec2Model ----
(***************************************************************************)
(* Verification model of the steady Navier-Stokes solver                   *)
(* (src/src/SteadyNavierStokes.cpp): the Picard loop of                    *)
(* IncrementalStokes<dim>::solve with its constraint handling and its      *)
(* distributed update-norm reduction, the face loops of the two            *)
(* assemblers, and the post-processing of compute_lift_drag.               *)
(*                                                                         *)
(* Specifications, all over one set of variables:                          *)
(*   Spec, SpecNorm  the Picard loop and its update norm                   *)
(*   SpecAsm         the boundary-face loops of the two assemblers         *)
(*   SpecPost        compute_lift_drag: forces, point pressures, log file  *)
(*   SpecForce       the force integration over faces of any tag           *)
(*   SpecCells       the cell loops, the sparsity patterns and compress    *)
(*   SpecPipeline    run_full_problem_pipeline with its Stokes stage       *)
(*   SpecBlocks      the velocity/pressure block index sets of setup()     *)
(*   SpecSync        the Picard loop as run by the MPI processes           *)
(*   SpecLiftDrag    compute_lift_drag as run by the MPI processes         *)
(*                                                                         *)
(* Numbers.  Vector entries are integers counted in units of update_tol    *)
(* (1e-7), so update_tol itself is 1.  std::sqrt is monotone, hence        *)
(* "sqrt(global_sum) < update_tol" is decided on the squares.              *)
(*                                                                         *)
(* Library calls (deal.II / Trilinos / MPI) are modelled by their          *)
(* documented behaviour in an optimised build:                             *)
(*   - SolverGMRES::solve returns the iterate when SolverControl reports   *)
(*     success and throws SolverControl::NoConvergence when the iteration  *)
(*     budget is exhausted; no caller in this repository catches it;       *)
(*   - BlockVector::operator()(k) yields the stored entry when k is        *)
(*     locally owned or a ghost entry of the calling worker, and 0.0 for   *)
(*     an index the worker does not store;                                 *)
(*   - AffineConstraints::set_zero / distribute write the constrained      *)
(*     entries only (the constraints here are pure Dirichlet lines).       *)
(*   - compress(VectorOperation::add), l2_norm(), the GMRES solve and      *)
(*     MPI_Allreduce are collective: they return on a process once every   *)
(*     process has made the call; MPI_Reduce writes the result on the      *)
(*     root only;                                                          *)
(*   - MatrixTools::apply_boundary_values reduces each Dirichlet row to    *)
(*     its diagonal and writes the boundary value into the solution.       *)
(***************************************************************************)
EXTENDS Integers, FiniteSets, Sequences, TLC

\* ------------------------------------------------------------------ bounds
NDoF == 2        \* global degrees of freedom: n_u velocity, then n_p pressure
MaxVal == 1      \* vector entries range over 0..MaxVal (units of update_tol)
NWorkers == 2    \* MPI processes
NFaces == 3      \* faces visited by the face loops of the assemblers
MaxPasses == 2   \* calls of assemble() followed in the cell-loop specification

\* ------------------------------------------------------- program constants
maxIter == 10    \* Incremental_stokes.hpp:95
update_tol == 1  \* Incremental_stokes.hpp:97 (1e-7, the unit of the entries)
p_out == 0       \* Incremental_stokes.hpp:100

\* Boundary tags as setup() and the assemblers name them.
INLET == 0
OUTLET == 1
WALLS == 2
OBSTACLE == 3
BoundaryTags == {INLET, OUTLET, WALLS, OBSTACLE}

\* ------------------------------------------------- degree-of-freedom layout
\* DoFRenumbering::component_wise: velocity indices [0, n_u) first, then
\* pressure [n_u, n_u + n_p); the model numbers them from 1.  The last DoF
\* is the one pressure unknown of the model, all others are velocity unknowns.
n_u == NDoF - 1
n_p == NDoF - n_u
DoFs == 1..NDoF
VelocityDoFs == 1..n_u
PressureDoFs == (n_u + 1)..(n_u + n_p)
Workers == 0..(NWorkers - 1)
Values == 0..MaxVal
Vectors == [DoFs -> Values]
ZeroVector == [k \in DoFs |-> 0]

\* Faces of the mesh, and the two points of interest of compute_lift_drag.
Faces == 1..NFaces
Points == {1, 2}

\* Cells of the mesh: the faces are dealt to the cells two by two, in the
\* order the cell loop and the face loop visit them.
NCells == (NFaces + 1) \div 2
Cells == 1..NCells
face_cell(f) == (f + 1) \div 2

\* Where a DoF sits: the set of boundary tags of the faces it lies on (empty
\* for a DoF in the interior; the model keeps at most one tag per DoF).
DoFLocations == {{}} \cup {{t} : t \in BoundaryTags}

VARIABLES
  pc,              \* position in the life of the IncrementalStokes object
  exception,       \* "none", or the exception that left solve()
  dof_boundary,    \* dof_boundary[k]: boundary tags of DoF k (mesh input)
  owner,           \* owner[k]: the worker that owns DoF k
  ghosts,          \* ghosts[k]: the workers holding a ghost copy of DoF k
  constrained,     \* AffineConstraints: the constrained DoFs
  inhomogeneity,   \* AffineConstraints: their prescribed values
  iter,            \* IncrementalStokes::iter
  system_lin,      \* the iterate system_matrix / system_rhs were assembled from
  solution_owned,
  solution,
  solution_old,
  update_norm_sq,  \* square of the local update_norm of the running cycle
  measured,        \* history: number of cycles that measured an update norm
  raw_differs,     \* history: the GMRES output of this cycle missed a prescribed value
  get_resudial_,   \* public data member of IncrementalStokes
  \* --- the face loops of the two assemblers
  asm_pc,          \* position in the assembly sequence
  face_tag,        \* face_tag[f]: {} for an interior face, {boundary_id} otherwise
  face_flux,       \* face_flux[f]: the face integral of n . v_i (mesh input)
  stokes_neumann,  \* faces on which Stokes::assemble added the Neumann term
  stokes_rhs,      \* stokes_rhs[f]: what face f added to Stokes' cell_rhs
  incr_neumann,    \* the same two for IncrementalStokes::assemble
  incr_rhs,
  \* --- the point-pressure part of compute_lift_drag
  post_pc,         \* position in compute_lift_drag
  point_pressure,  \* point_pressure[i]: the pressure field at point of interest i
  point_holders,   \* point_holders[i]: the workers on which point_value succeeds
  pres_point,      \* pres_point[w][i]: pres_point1 / pres_point2 of worker w
  global_pres_point, \* global_pres_point[w][i]: the receive buffers of the MPI_Reduce
  p_diff,          \* p_diff of rank 0 ("unset" until computed)
  \* --- the force integration and the log of compute_lift_drag
  cell_owner,      \* cell_owner[c]: the worker on which cell c is_locally_owned()
  face_stress,     \* face_stress[f]: the scaled face integrals forces[0], forces[1]
  integrated,      \* integrated[w]: the faces worker w has integrated, in order
  local_drag,      \* local_drag[w], local_lift[w]: the partial sums of worker w
  local_lift,
  total_drag,      \* total_drag[w], total_lift[w]: the receive buffers of the MPI_Reduce
  total_lift,
  log_opens,       \* whether output_file.is_open() holds on rank 0 (environment)
  log,             \* lift_drag_output.csv: the sequence of its records
  \* --- the cell loop and the matrices of the two assemblers
  cells_pc,        \* position in setup() / assemble() of the variant
  variant,         \* "Stokes" or "IncrementalStokes"
  cell_dofs,       \* cell_dofs[c]: the global indices get_dof_indices gives for cell c
  cell_weight,     \* cell_weight[c]: the quadrature weight JxW of cell c (mesh input)
  assembling,      \* the workers still inside their cell loop
  assembled_by,    \* assembled_by[w]: the cells worker w has assembled, in order
  added_matrix,    \* added_matrix[w][i, j]: what worker w has add()ed to entry (i, j)
  added_rhs,       \* added_rhs[w][i]: the same for the right-hand side
  added_pressure_mass,
  sparsity,        \* entries allocated for system_matrix
  sparsity_pressure_mass, \* entries allocated for pressure_mass
  system_matrix,   \* the global matrices and right-hand side after compress
  system_rhs,
  pressure_mass,
  \* --- run_full_problem_pipeline and its Stokes object
  pipe_pc,         \* position in run_full_problem_pipeline
  mesh_file_opens, \* whether std::ifstream grid_in_file(mesh_file_name) opens (environment)
  pipe_exception,  \* "none", or the exception that left the pipeline
  performed,       \* history: the steps of the pipeline performed so far, in order
  boundary_values, \* Stokes::assemble: the map index -> value of the Dirichlet rows
  stokes_solution_owned, \* Stokes::solution_owned
  stokes_solution_ghosted, \* Stokes::solution (with ghost entries)
  stokes_solution, \* the pipeline's copy, stokes_problem.get_solution()
  \* --- the block structure setup() computes on every worker
  blocks_pc,       \* blocks_pc[w]: position of worker w in that part of setup()
  block_owned_dofs,    \* block_owned_dofs[w][b]: view of the owned indices, block b
  block_relevant_dofs, \* block_relevant_dofs[w][b]: the same of the relevant indices
  layout,          \* layout[w][object]: the index sets the object was reinit()ed with
  \* --- the workers' positions in the Picard loop of IncrementalStokes::solve
  sync_pc,         \* sync_pc[w]: the call worker w is in (or "done" / "threw")
  sync_iter,       \* sync_iter[w]: worker w's copy of iter
  sync_local_sum,  \* sync_local_sum[w]: local_sum of worker w
  sync_global_sum, \* sync_global_sum[w]: global_sum worker w received
  gmres_fails_at   \* the cycle whose GMRES solve does not converge (maxIter: none)

picard_vars == <<pc, exception, dof_boundary, owner, ghosts, constrained,
                 inhomogeneity, iter, system_lin, solution_owned, solution,
                 solution_old, update_norm_sq, measured, raw_differs, get_resudial_>>

asm_vars == <<asm_pc, face_tag, face_flux, stokes_neumann, stokes_rhs,
              incr_neumann, incr_rhs>>

point_vars == <<point_pressure, point_holders, pres_point, global_pres_point, p_diff>>

force_vars == <<cell_owner, face_stress, integrated, local_drag, local_lift,
                total_drag, total_lift>>

log_vars == <<log_opens, log>>

post_vars == <<post_pc, point_vars, force_vars, log_vars>>

cell_vars == <<cells_pc, variant, cell_dofs, cell_weight, assembling, assembled_by,
               added_matrix, added_rhs, added_pressure_mass, sparsity,
               sparsity_pressure_mass, system_matrix, system_rhs, pressure_mass>>

pipe_vars == <<pipe_pc, mesh_file_opens, pipe_exception, performed, boundary_values,
               stokes_solution_owned, stokes_solution_ghosted, stokes_solution>>

block_vars == <<blocks_pc, block_owned_dofs, block_relevant_dofs, layout>>

sync_vars == <<sync_pc, sync_iter, sync_local_sum, sync_global_sum, gmres_fails_at>>

vars == <<picard_vars, asm_vars, post_vars, cell_vars, pipe_vars, block_vars, sync_vars>>

\* ------------------------------------------------------------ constraints
\* InletVelocity::value, component 0, at an inlet DoF: a positive profile
\* value; the model uses the largest representable entry.
inlet_velocity(k) == MaxVal

\* setup(): boundary_functions[0] = inlet_velocity, [2] and [3] = zero,
\* interpolated on the velocity components only (ComponentMask).
DirichletTags == {INLET, WALLS, OBSTACLE}

ComponentMask(k) == k \in VelocityDoFs

ConstrainedDoFs(loc) ==
  {k \in DoFs : ComponentMask(k) /\ loc[k] \cap DirichletTags # {}}

PrescribedValue(loc, k) ==
  IF INLET \in loc[k] THEN inlet_velocity(k) ELSE 0

\* Mutant of set_zero: the whole vector is cleared.
set_zero_everywhere(v) == [k \in DoFs |-> 0]

\* AffineConstraints::set_zero: constrained entries become 0.
set_zero(v) == [k \in DoFs |-> IF k \in constrained THEN 0 ELSE v[k]]

\* Mutant of distribute: the prescribed values are not written back.
distribute_skipped(v) == v

\* AffineConstraints::distribute: constrained entries become the prescribed value.
distribute(v) == [k \in DoFs |-> IF k \in constrained THEN inhomogeneity[k] ELSE v[k]]

\* ------------------------------------------------------- the update norm
\* locally_relevant_dofs of worker w: owned plus ghost entries.
Relevant(w) == {k \in DoFs : owner[k] = w \/ w \in ghosts[k]}

\* new_res = solution; new_res.sadd(1.0, -1.0, solution_old)
UpdateVector(sol, old) == [k \in DoFs |-> sol[k] - old[k]]

\* new_res(k) on worker w; new_res has the layout of the ghosted solution.
ElementOn(w, res, k) == IF k \in Relevant(w) THEN res[k] ELSE 0

RECURSIVE SumSquares(_, _, _)
\* for (k = 0; k < new_res.size(); ++k) local_sum += new_res(k) * new_res(k)
SumSquares(w, res, k) ==
  IF k = 0 THEN 0
  ELSE SumSquares(w, res, k - 1) + ElementOn(w, res, k) * ElementOn(w, res, k)

LocalSum(w, res) == SumSquares(w, res, NDoF)

RECURSIVE AllreduceSum(_, _)
\* MPI_Allreduce(&local_sum, &global_sum, 1, MPI_DOUBLE, MPI_SUM, MPI_COMM_WORLD)
AllreduceSum(res, w) ==
  IF w < 0 THEN 0 ELSE AllreduceSum(res, w - 1) + LocalSum(w, res)

GlobalSum(res) == AllreduceSum(res, NWorkers - 1)

\* Mutant of BelowTol: a norm equal to the tolerance passes the test.
AtOrBelowTol(norm_sq) == norm_sq <= update_tol * update_tol

\* update_norm < update_tol, with update_norm = std::sqrt(global_sum)
BelowTol(norm_sq) == norm_sq < update_tol * update_tol

\* double update_norm = update_tol + 1.0
InitialUpdateNormSq == (update_tol + 1) * (update_tol + 1)

\* ------------------------------------------------------------------ Init
\* Partitions the Picard specification starts from: DoFs dealt round-robin
\* to the workers, either without ghost copies or with every DoF ghosted on
\* every other worker.
RoundRobin == [k \in DoFs |-> (k - 1) % NWorkers]

GhostLayouts ==
  { [k \in DoFs |-> {}], [k \in DoFs |-> Workers \ {RoundRobin[k]}] }

\* The pressure DoF is put on the inlet face, so that the component mask decides.
MeshLocations ==
  {loc \in [DoFs -> DoFLocations] : \A k \in PressureDoFs : loc[k] = {INLET}}

\* The parts of the state a specification does not exercise.
PicardIdle ==
  /\ pc = "idle"
  /\ exception = "none"
  /\ dof_boundary = [k \in DoFs |-> {}]
  /\ owner = RoundRobin
  /\ ghosts = [k \in DoFs |-> {}]
  /\ constrained = {}
  /\ inhomogeneity = ZeroVector
  /\ iter = 0
  /\ system_lin = ZeroVector
  /\ solution_owned = ZeroVector
  /\ solution = ZeroVector
  /\ solution_old = ZeroVector
  /\ update_norm_sq = 0
  /\ measured = 0
  /\ raw_differs = FALSE
  /\ get_resudial_ = "unset"

AsmIdle ==
  /\ asm_pc = "idle"
  /\ face_tag = [f \in Faces |-> {}]
  /\ face_flux = [f \in Faces |-> 0]
  /\ stokes_neumann = {}
  /\ stokes_rhs = [f \in Faces |-> 0]
  /\ incr_neumann = {}
  /\ incr_rhs = [f \in Faces |-> 0]

\* double local_drag = 0.0 ... double total_drag = 0.0 on every worker.
ZeroPerWorker == [w \in Workers |-> 0]

PointIdle ==
  /\ point_pressure = [i \in Points |-> 0]
  /\ point_holders = [i \in Points |-> {}]
  /\ pres_point = [w \in Workers |-> [i \in Points |-> 0]]
  /\ global_pres_point = [w \in Workers |-> [i \in Points |-> 0]]
  /\ p_diff = "unset"

ForceIdle ==
  /\ cell_owner = [c \in Cells |-> 0]
  /\ face_stress = [f \in Faces |-> [drag |-> 0, lift |-> 0]]
  /\ integrated = [w \in Workers |-> <<>>]
  /\ local_drag = ZeroPerWorker
  /\ local_lift = ZeroPerWorker
  /\ total_drag = ZeroPerWorker
  /\ total_lift = ZeroPerWorker

LogIdle ==
  /\ log_opens = TRUE
  /\ log = <<>>

\* Entries of a matrix of the global size, and the matrix / vector of zeros.
Entries == DoFs \X DoFs
ZeroMatrix == [e \in Entries |-> 0]

CellIdle ==
  /\ cells_pc = "idle"
  /\ variant = "Stokes"
  /\ cell_dofs = [c \in Cells |-> {}]
  /\ cell_weight = [c \in Cells |-> 0]
  /\ assembling = {}
  /\ assembled_by = [w \in Workers |-> <<>>]
  /\ added_matrix = [w \in Workers |-> ZeroMatrix]
  /\ added_rhs = [w \in Workers |-> ZeroVector]
  /\ added_pressure_mass = [w \in Workers |-> ZeroMatrix]
  /\ sparsity = {}
  /\ sparsity_pressure_mass = {}
  /\ system_matrix = ZeroMatrix
  /\ system_rhs = ZeroVector
  /\ pressure_mass = ZeroMatrix

\* The objects setup() reinit()s with the block index sets.
Objects == {"system_matrix", "pressure_mass", "system_rhs", "solution_owned", "solution"}

NoBlocks == <<{}, {}>>

BlockIdle ==
  /\ blocks_pc = [w \in Workers |-> "idle"]
  /\ block_owned_dofs = [w \in Workers |-> NoBlocks]
  /\ block_relevant_dofs = [w \in Workers |-> NoBlocks]
  /\ layout = [w \in Workers |-> [o \in Objects |-> "unset"]]

SyncIdle ==
  /\ sync_pc = [w \in Workers |-> "idle"]
  /\ sync_iter = [w \in Workers |-> 0]
  /\ sync_local_sum = [w \in Workers |-> 0]
  /\ sync_global_sum = [w \in Workers |-> 0]
  /\ gmres_fails_at = maxIter

PipeIdle ==
  /\ pipe_pc = "idle"
  /\ mesh_file_opens = TRUE
  /\ pipe_exception = "none"
  /\ performed = <<>>
  /\ boundary_values = <<>>
  /\ stokes_solution_owned = ZeroVector
  /\ stokes_solution_ghosted = ZeroVector
  /\ stokes_solution = ZeroVector

PostIdle ==
  /\ post_pc = "idle"
  /\ PointIdle
  /\ ForceIdle
  /\ LogIdle

\* State after construction of the IncrementalStokes object.
Init ==
  /\ pc = "constructed"
  /\ exception = "none"
  /\ dof_boundary \in MeshLocations
  /\ owner = RoundRobin
  /\ ghosts \in GhostLayouts
  /\ constrained = {}
  /\ inhomogeneity = ZeroVector
  /\ iter = 0
  /\ system_lin = ZeroVector
  /\ solution_owned = ZeroVector
  /\ solution = ZeroVector
  /\ solution_old = ZeroVector
  /\ update_norm_sq = 0
  /\ measured = 0
  /\ raw_differs = FALSE
  /\ get_resudial_ = "unset"
  /\ AsmIdle
  /\ PostIdle
  /\ CellIdle
  /\ PipeIdle
  /\ BlockIdle
  /\ SyncIdle

\* --------------------------------------------------------------- actions
\* set_initial_conditions(solution_stokes_): the previous iterate becomes the
\* caller's vector.
SetInitialConditions(v) ==
  /\ pc = "constructed"
  /\ solution_old' = v
  /\ pc' = "setup"
  /\ UNCHANGED <<exception, dof_boundary, owner, ghosts, constrained, inhomogeneity,
                 iter, system_lin, solution_owned, solution, update_norm_sq,
                 measured, raw_differs, get_resudial_,
                 asm_vars, post_vars, cell_vars, pipe_vars, block_vars, sync_vars>>

\* Mutant of previous_iterate_after_setup: setup() reinit()s solution_old too.
previous_iterate_reinit(old) == ZeroVector

\* What setup() leaves of solution_old: it is not among the vectors reinit()ed.
previous_iterate_after_setup(old) == old

\* IncrementalStokes<dim>::setup(): builds and closes the constraints, then
\* reinit()s system_rhs, solution_owned and solution (entries zero).
Setup ==
  /\ pc = "setup"
  /\ constrained' = ConstrainedDoFs(dof_boundary)
  /\ inhomogeneity' = [k \in DoFs |->
        IF k \in ConstrainedDoFs(dof_boundary) THEN PrescribedValue(dof_boundary, k)
        ELSE 0]
  /\ solution_owned' = ZeroVector
  /\ solution' = ZeroVector
  /\ solution_old' = previous_iterate_after_setup(solution_old)
  /\ pc' = "solve"
  /\ UNCHANGED <<exception, dof_boundary, owner, ghosts, iter, system_lin,
                 update_norm_sq, measured, raw_differs, get_resudial_,
                 asm_vars, post_vars, cell_vars, pipe_vars, block_vars, sync_vars>>

\* Mutant of LoopHead: exhausting the cap is escalated instead of returning.
LoopHeadEscalates(i) == IF i < maxIter THEN "assemble" ELSE "threw"

\* solve(): for (iter = 0; iter < maxIter; ...)
LoopHead(i) == IF i < maxIter THEN "assemble" ELSE "returned"

SolveEnter ==
  /\ pc = "solve"
  /\ iter' = 0
  /\ pc' = LoopHead(0)
  /\ UNCHANGED <<exception, dof_boundary, owner, ghosts, constrained, inhomogeneity,
                 system_lin, solution_owned, solution, solution_old, update_norm_sq,
                 measured, raw_differs, get_resudial_,
                 asm_vars, post_vars, cell_vars, pipe_vars, block_vars, sync_vars>>

\* What assemble() reads of the iterate: the system is built from solution_old.
AssembledFrom(old) == old

\* this->assemble(); double update_norm = update_tol + 1.0;
\* if (update_norm < update_tol) break; else { ...
Assemble ==
  /\ pc = "assemble"
  /\ system_lin' = AssembledFrom(solution_old)
  /\ update_norm_sq' = InitialUpdateNormSq
  /\ pc' = IF BelowTol(InitialUpdateNormSq) THEN "returned" ELSE "set_zero"
  /\ raw_differs' = FALSE
  /\ UNCHANGED <<exception, dof_boundary, owner, ghosts, constrained, inhomogeneity,
                 iter, solution_owned, solution, solution_old, measured, get_resudial_,
                 asm_vars, post_vars, cell_vars, pipe_vars, block_vars, sync_vars>>

\* constraints.set_zero(this->solution_owned)
SetZero ==
  /\ pc = "set_zero"
  /\ solution_owned' = set_zero(solution_owned)
  /\ pc' = "gmres"
  /\ UNCHANGED <<exception, dof_boundary, owner, ghosts, constrained, inhomogeneity,
                 iter, system_lin, solution, solution_old, update_norm_sq,
                 measured, raw_differs, get_resudial_,
                 asm_vars, post_vars, cell_vars, pipe_vars, block_vars, sync_vars>>

\* solver.solve(system_matrix, solution_owned, system_rhs, preconditioner)
\* reaching the tolerance within the budget: solution_owned holds the iterate x.
GmresReturn(x) ==
  /\ pc = "gmres"
  /\ solution_owned' = x
  /\ raw_differs' = (\E k \in constrained : x[k] # inhomogeneity[k])
  /\ pc' = "distribute"
  /\ UNCHANGED <<exception, dof_boundary, owner, ghosts, constrained, inhomogeneity,
                 iter, system_lin, solution, solution_old, update_norm_sq,
                 measured, get_resudial_,
                 asm_vars, post_vars, cell_vars, pipe_vars, block_vars, sync_vars>>

\* What a failed linear solve does to its caller: SolverGMRES::solve raises
\* SolverControl::NoConvergence, which solve() does not catch.
OnNoConvergence == [pc |-> "threw", exception |-> "NoConvergence"]

\* solver.solve(...) exhausting the budget of SolverControl(2'000'000, 1e-4).
GmresNoConvergence ==
  /\ pc = "gmres"
  /\ pc' = OnNoConvergence.pc
  /\ exception' = OnNoConvergence.exception
  /\ UNCHANGED <<dof_boundary, owner, ghosts, constrained, inhomogeneity, iter,
                 system_lin, solution_owned, solution, solution_old, update_norm_sq,
                 measured, raw_differs, get_resudial_,
                 asm_vars, post_vars, cell_vars, pipe_vars, block_vars, sync_vars>>

\* constraints.distribute(solution_owned); this->solution = this->solution_owned
Distribute ==
  /\ pc = "distribute"
  /\ solution_owned' = distribute(solution_owned)
  /\ solution' = distribute(solution_owned)
  /\ pc' = "measure"
  /\ UNCHANGED <<exception, dof_boundary, owner, ghosts, constrained, inhomogeneity,
                 iter, system_lin, solution_old, update_norm_sq, measured,
                 raw_differs, get_resudial_,
                 asm_vars, post_vars, cell_vars, pipe_vars, block_vars, sync_vars>>

\* Mutant of MeasuredAgainst: the update is taken against the new iterate.
MeasuredAgainstNew(sol, old) == sol

\* The vector the update is measured against.
MeasuredAgainst(sol, old) == old

\* new_res = solution - solution_old; local sums; MPI_Allreduce;
\* update_norm = std::sqrt(global_sum).  new_res is written and read only
\* here, so the model keeps it local to the step.
Measure ==
  /\ pc = "measure"
  /\ LET new_res == UpdateVector(solution, MeasuredAgainst(solution, solution_old))
     IN  update_norm_sq' = GlobalSum(new_res)
  /\ measured' = measured + 1
  /\ pc' = "end_of_cycle"
  /\ UNCHANGED <<exception, dof_boundary, owner, ghosts, constrained, inhomogeneity,
                 iter, system_lin, solution_owned, solution, solution_old,
                 raw_differs, get_resudial_,
                 asm_vars, post_vars, cell_vars, pipe_vars, block_vars, sync_vars>>

\* Mutant of Breaks: the comparison is reversed.
BreaksOnLargeUpdate(norm_sq) == ~BelowTol(norm_sq)

\* if (update_norm < update_tol) break;
Breaks(norm_sq) == BelowTol(norm_sq)

\* Mutant of previous_iterate_at_end_of_cycle: the assignment is made only
\* on the way into a further cycle, so the cycle that leaves the loop skips it.
previous_iterate_after_tests(sol, old, leaves) == IF leaves THEN old ELSE sol

\* this->solution_old = this->solution (line 807), ahead of the test of
\* line 812 and of the loop test: the previous iterate at the end of a
\* cycle, whether or not the loop is left there.
previous_iterate_at_end_of_cycle(sol, old, leaves) == sol

\* Mutant of iter_after_cycle: the counter is incremented in the cycle that
\* breaks as well.
iter_always_incremented(i, breaks) == i + 1

\* break leaves the for statement without its ++iter (lines 758, 812-813).
iter_after_cycle(i, breaks) == IF breaks THEN i ELSE i + 1

\* this->solution_old = this->solution; if (update_norm < update_tol) break;
\* otherwise ++iter and the loop test.
EndOfCycle ==
  /\ pc = "end_of_cycle"
  /\ solution_old' =
       previous_iterate_at_end_of_cycle(solution, solution_old,
          Breaks(update_norm_sq) \/ LoopHead(iter + 1) # "assemble")
  /\ iter' = iter_after_cycle(iter, Breaks(update_norm_sq))
  /\ pc' = IF Breaks(update_norm_sq) THEN "returned" ELSE LoopHead(iter + 1)
  /\ UNCHANGED <<exception, dof_boundary, owner, ghosts, constrained, inhomogeneity,
                 system_lin, solution_owned, solution, update_norm_sq, measured,
                 raw_differs, get_resudial_,
                 asm_vars, post_vars, cell_vars, pipe_vars, block_vars, sync_vars>>

Next ==
  \/ \E v \in Vectors : SetInitialConditions(v)
  \/ Setup
  \/ SolveEnter
  \/ Assemble
  \/ SetZero
  \/ \E x \in Vectors : GmresReturn(x)
  \/ GmresNoConvergence
  \/ Distribute
  \/ Measure
  \/ EndOfCycle

Spec == Init /\ [][Next]_vars

\* ------------------------------------------------------------------------
\* Claims about the Picard loop (specification Spec)
\* ------------------------------------------------------------------------
InCycle == pc \in {"set_zero", "gmres", "distribute", "measure", "end_of_cycle"}

Terminated == pc \in {"returned", "threw"}

\* C1: solve() performs at most maxIter cycles and leaves the loop only after
\* the first cycle whose update norm is below update_tol or, failing that,
\* after the maxIter-th cycle; there is no other exit.
C1_OnlyConvergenceOrCapEndsSolve ==
  /\ measured <= maxIter
  /\ (InCycle \/ pc = "assemble") => (measured = iter \/ measured = iter + 1)
  /\ (pc = "assemble" /\ measured > 0) => ~BelowTol(update_norm_sq)
  /\ Terminated =>
       /\ pc = "returned"
       /\ exception = "none"
       /\ BelowTol(update_norm_sq) \/ measured = maxIter

\* C2: the metric of cycle k is computed from the solution of cycle k minus
\* the iterate the assembly of cycle k was linearized about, and that
\* iterate is not overwritten between the assembly and the measurement.
C2_MetricAgainstLinearizationState ==
  /\ InCycle => solution_old = system_lin
  /\ pc = "end_of_cycle" =>
       /\ solution = solution_owned
       /\ update_norm_sq = GlobalSum(UpdateVector(solution, system_lin))

C2_Witness ==
  /\ pc = "end_of_cycle"
  /\ measured >= 2
  /\ update_norm_sq > 0
  /\ system_lin # ZeroVector

\* C4: at a fixed point (the constrained solver output equals the previous
\* iterate) the measured norm is at most update_tol and solve() returns
\* after that cycle with the iterate unchanged.
C4_FixedPointStops ==
  [][ (pc = "end_of_cycle" /\ solution = solution_old) =>
        /\ update_norm_sq <= update_tol * update_tol
        /\ pc' = "returned"
        /\ solution_old' = solution_old
        /\ solution' = solution
        /\ iter' = iter ]_vars

C4_Witness ==
  /\ pc = "returned"
  /\ measured = 1
  /\ update_norm_sq = 0
  /\ solution = solution_old
  /\ solution # ZeroVector

\* C5: a GMRES solve that exhausts its iteration budget is not fatal:
\* nothing is raised and control returns to the Picard loop, which goes on
\* to constrain and measure.
C5_ExhaustedSolveReturns ==
  /\ exception = "none"
  /\ pc # "threw"

\* What the caller of solve() can read afterwards: whether an exception came
\* out, and the public data member.
CallerView == [exception |-> exception, get_resudial_ |-> get_resudial_]

\* C6: when the cap is exhausted with no cycle below tolerance, solve()
\* returns normally with the last computed solution, and what the caller
\* can read is the same as after a converged run.
C6_CapExhaustionReturnsSilently ==
  /\ (Terminated /\ measured = maxIter /\ ~BelowTol(update_norm_sq)) =>
       /\ pc = "returned"
       /\ solution = solution_owned
       /\ solution_old = solution
  /\ pc = "returned" => CallerView = [exception |-> "none", get_resudial_ |-> "unset"]

C6_Witness ==
  /\ pc = "returned"
  /\ measured = maxIter
  /\ iter = maxIter
  /\ ~BelowTol(update_norm_sq)

\* C7: after the CONSTRAIN step of every cycle, and in the solution solve()
\* returns, every Dirichlet-constrained velocity DoF (inlet, walls,
\* obstacle) holds its prescribed value, whatever GMRES returned for it.
C7_DirichletValuesExact ==
  \A k \in ConstrainedDoFs(dof_boundary) :
    /\ pc \in {"measure", "end_of_cycle"} =>
         /\ solution_owned[k] = PrescribedValue(dof_boundary, k)
         /\ solution[k] = PrescribedValue(dof_boundary, k)
    /\ pc = "returned" => solution[k] = PrescribedValue(dof_boundary, k)

C7_Witness ==
  /\ pc = "measure"
  /\ raw_differs
  /\ \E k \in constrained : INLET \in dof_boundary[k]

\* C8: set_zero followed by distribute changes constrained entries only:
\* every unconstrained DoF keeps its value through each of the two
\* operations and through their composition.
C8_RoundTripKeepsUnconstrained ==
  [][ /\ pc = "set_zero" =>
           \A k \in DoFs \ ConstrainedDoFs(dof_boundary) :
             /\ solution_owned'[k] = solution_owned[k]
             /\ distribute(solution_owned')[k] = solution_owned[k]
      /\ pc = "distribute" =>
           \A k \in DoFs \ ConstrainedDoFs(dof_boundary) :
             solution_owned'[k] = solution_owned[k] ]_vars

C8_Witness ==
  /\ pc = "gmres"
  /\ measured >= 1
  /\ \E k \in constrained : solution[k] # 0 /\ solution_owned[k] = 0
  /\ \E k \in DoFs \ constrained : solution_owned[k] # 0

\* ------------------------------------------------------------------------
\* The update-norm reduction on its own (specification SpecNorm): the
\* measurement step applied to every pair of vectors under every partition
\* of the DoFs into owned and ghost entries.
\* ------------------------------------------------------------------------
Partitions ==
  {part \in [owner : [DoFs -> Workers], ghosts : [DoFs -> SUBSET Workers]] :
     \A k \in DoFs : part.owner[k] \notin part.ghosts[k]}

InitNorm ==
  /\ pc = "measure"
  /\ exception = "none"
  /\ dof_boundary = [k \in DoFs |-> {}]
  /\ \E part \in Partitions : owner = part.owner /\ ghosts = part.ghosts
  /\ constrained = {}
  /\ inhomogeneity = ZeroVector
  /\ iter = 0
  /\ solution_old \in Vectors
  /\ system_lin = solution_old
  /\ solution \in Vectors
  /\ solution_owned = solution
  /\ update_norm_sq = InitialUpdateNormSq
  /\ measured = 0
  /\ raw_differs = FALSE
  /\ get_resudial_ = "unset"
  /\ AsmIdle
  /\ PostIdle
  /\ CellIdle
  /\ PipeIdle
  /\ BlockIdle
  /\ SyncIdle

NextNorm == Measure

SpecNorm == InitNorm /\ [][NextNorm]_vars

RECURSIVE SerialSumSquares(_, _)
\* The sum of squares one worker holding the full vector computes.
SerialSumSquares(res, k) ==
  IF k = 0 THEN 0 ELSE SerialSumSquares(res, k - 1) + res[k] * res[k]

\* C3: for any partition, ghost copies included, the all-reduced sum of the
\* workers' local sums of squares (hence its square root) equals the sum a
\* single worker computes over the full vector.
C3_ReductionEqualsSerialNorm ==
  pc = "end_of_cycle" =>
    update_norm_sq = SerialSumSquares(UpdateVector(solution, solution_old), NDoF)

\* ------------------------------------------------------------------------
\* The face loops of the two assemblers (specification SpecAsm)
\* ------------------------------------------------------------------------
\* cell->face(f)->at_boundary()
at_boundary(f) == face_tag[f] # {}

\* Stokes<dim>::assemble: boundary_id() == 1
StokesNeumannTag == 1
\* IncrementalStokes<dim>::assemble: boundary_id() == 2
IncrementalNeumannTag == 2

StokesNeumannFace(f) == at_boundary(f) /\ StokesNeumannTag \in face_tag[f]

IncrementalNeumannFace(f) == at_boundary(f) /\ IncrementalNeumannTag \in face_tag[f]

\* cell_rhs(i) += -(p_out) * (n . v_i) * JxW, summed over the face
NeumannTerm(f) == (0 - p_out) * face_flux[f]

InitAsm ==
  /\ PicardIdle
  /\ PostIdle
  /\ CellIdle
  /\ PipeIdle
  /\ BlockIdle
  /\ SyncIdle
  /\ asm_pc = "stokes_assemble"
  /\ face_tag \in [Faces -> DoFLocations]
  /\ face_flux \in [Faces -> 1..MaxVal]
  /\ stokes_neumann = {}
  /\ stokes_rhs = [f \in Faces |-> 0]
  /\ incr_neumann = {}
  /\ incr_rhs = [f \in Faces |-> 0]

\* The face loop of Stokes<dim>::assemble.
StokesAssembleFaces ==
  /\ asm_pc = "stokes_assemble"
  /\ stokes_neumann' = {f \in Faces : StokesNeumannFace(f)}
  /\ stokes_rhs' = [f \in Faces |-> IF StokesNeumannFace(f) THEN NeumannTerm(f) ELSE 0]
  /\ asm_pc' = "incremental_assemble"
  /\ UNCHANGED <<face_tag, face_flux, incr_neumann, incr_rhs, picard_vars, post_vars, cell_vars, pipe_vars, block_vars, sync_vars>>

\* The face loop of IncrementalStokes<dim>::assemble.
IncrementalAssembleFaces ==
  /\ asm_pc = "incremental_assemble"
  /\ incr_neumann' = {f \in Faces : IncrementalNeumannFace(f)}
  /\ incr_rhs' = [f \in Faces |-> IF IncrementalNeumannFace(f) THEN NeumannTerm(f) ELSE 0]
  /\ asm_pc' = "assembled"
  /\ UNCHANGED <<face_tag, face_flux, stokes_neumann, stokes_rhs, picard_vars, post_vars, cell_vars, pipe_vars, block_vars, sync_vars>>

NextAsm == StokesAssembleFaces \/ IncrementalAssembleFaces

SpecAsm == InitAsm /\ [][NextAsm]_vars

\* C9: in both assemblers a face gets the Neumann term only if it is a
\* boundary face tagged as the outlet; interior faces and faces of the
\* Dirichlet regions get nothing; both assemblers use the same outlet tag.
C9_NeumannOnlyOnOutlet ==
  asm_pc = "assembled" =>
    /\ \A f \in stokes_neumann : face_tag[f] = {OUTLET}
    /\ \A f \in incr_neumann : face_tag[f] = {OUTLET}
    /\ stokes_neumann = incr_neumann

\* ------------------------------------------------------------------------
\* compute_lift_drag (specifications SpecPost and SpecForce)
\* ------------------------------------------------------------------------
PressureValues == (0 - MaxVal)..MaxVal

\* What one obstacle face adds to the two accumulators:
\* scaling_factor * forces[0] and scaling_factor * forces[1], summed over the
\* quadrature points of the face.
StressValues == [drag : 1..MaxVal, lift : {0 - MaxVal, MaxVal}]

\* Mutant of is_locally_owned: ghost cells pass the test as well.
is_locally_owned_or_ghost(w, c) == TRUE

\* cell->is_locally_owned() on worker w
is_locally_owned(w, c) == cell_owner[c] = w

\* boundary_id == 3 // Obstacle
is_stress_boundary(f) == OBSTACLE \in face_tag[f]

\* The tests a face passes before worker w integrates it (lines 898-917).
IntegratesFace(w, f) ==
  /\ is_locally_owned(w, face_cell(f))
  /\ at_boundary(f)
  /\ is_stress_boundary(f)

RECURSIVE FacesVisited(_, _)
\* The faces worker w integrates among the first f faces of the two loops.
FacesVisited(w, f) ==
  IF f = 0 THEN <<>>
  ELSE FacesVisited(w, f - 1) \o (IF IntegratesFace(w, f) THEN <<f>> ELSE <<>>)

RECURSIVE Accumulate(_, _, _)
\* local_drag += ..., local_lift += ... over the first n integrated faces.
Accumulate(fs, field, n) ==
  IF n = 0 THEN 0 ELSE Accumulate(fs, field, n - 1) + face_stress[fs[n]][field]

\* The cell and face loops of compute_lift_drag, run by every worker.
IntegrateForces ==
  /\ post_pc = "integrate"
  /\ integrated' = [w \in Workers |-> FacesVisited(w, NFaces)]
  /\ local_drag' = [w \in Workers |->
        Accumulate(FacesVisited(w, NFaces), "drag", Len(FacesVisited(w, NFaces)))]
  /\ local_lift' = [w \in Workers |->
        Accumulate(FacesVisited(w, NFaces), "lift", Len(FacesVisited(w, NFaces)))]
  /\ post_pc' = "reduce_forces"
  /\ UNCHANGED <<cell_owner, face_stress, total_drag, total_lift,
                 point_vars, log_vars, picard_vars, asm_vars, cell_vars, pipe_vars, block_vars, sync_vars>>

RECURSIVE MPI_SUM(_, _)
\* The operator of MPI_Reduce(..., MPI_SUM, 0, MPI_COMM_WORLD) over ranks 0..w
MPI_SUM(buf, w) == IF w < 0 THEN 0 ELSE MPI_SUM(buf, w - 1) + buf[w]

\* MPI_Reduce(&local_lift, &total_lift, ...); MPI_Reduce(&local_drag, &total_drag, ...):
\* only the receive buffers of rank 0 are written.
ReduceForces ==
  /\ post_pc = "reduce_forces"
  /\ total_lift' = [total_lift EXCEPT ![0] = MPI_SUM(local_lift, NWorkers - 1)]
  /\ total_drag' = [total_drag EXCEPT ![0] = MPI_SUM(local_drag, NWorkers - 1)]
  /\ post_pc' = "evaluate"
  /\ UNCHANGED <<cell_owner, face_stress, integrated, local_drag, local_lift,
                 point_vars, log_vars, picard_vars, asm_vars, cell_vars, pipe_vars, block_vars, sync_vars>>

\* Mutant of LocalPointPressure: the value is assigned whether or not the
\* point was available.
LocalPointPressureUnguarded(w, i) == point_pressure[i]

\* try { point_value(...) } catch (ExcPointNotAvailableHere) { available = false; }
\* pres_point = 0.0; if (available) pres_point = solution_values(dim);
LocalPointPressure(w, i) ==
  IF w \in point_holders[i] THEN point_pressure[i] ELSE 0

EvaluatePoints ==
  /\ post_pc = "evaluate"
  /\ pres_point' = [w \in Workers |-> [i \in Points |-> LocalPointPressure(w, i)]]
  /\ post_pc' = "reduce"
  /\ UNCHANGED <<point_pressure, point_holders, global_pres_point, p_diff,
                 force_vars, log_vars, picard_vars, asm_vars, cell_vars, pipe_vars, block_vars, sync_vars>>

\* The operator of MPI_Reduce(..., MPI_MAX, 0, MPI_COMM_WORLD)
MPI_MAX(S) == CHOOSE m \in S : \A x \in S : x <= m

\* MPI_Reduce(&pres_point, &global_pres_point, 1, MPI_DOUBLE, MPI_MAX, 0, ...):
\* only the receive buffer of rank 0 is written.
ReducePressure ==
  /\ post_pc = "reduce"
  /\ global_pres_point' =
       [w \in Workers |->
          IF w = 0
          THEN [i \in Points |-> MPI_MAX({pres_point[v][i] : v \in Workers})]
          ELSE global_pres_point[w]]
  /\ post_pc' = "difference"
  /\ UNCHANGED <<point_pressure, point_holders, pres_point, p_diff,
                 force_vars, log_vars, picard_vars, asm_vars, cell_vars, pipe_vars, block_vars, sync_vars>>

\* output_file << total_drag << ", " << total_lift << ", " << p_diff << "\n"
Record(drag, lift, pressure_difference) == <<drag, lift, pressure_difference>>

\* std::ofstream output_file(output_path, std::ios::app);
\* if (output_file.is_open()) { output_file << record; } else { std::cerr << ...; }
AppendRecord(file, opens, rec) == IF opens THEN Append(file, rec) ELSE file

\* if (mpi_rank == 0) { p_diff = global_pres_point1 - global_pres_point2;
\*                      append the record to lift_drag_output.csv }
ComputeDifference ==
  /\ post_pc = "difference"
  /\ p_diff' = global_pres_point[0][1] - global_pres_point[0][2]
  /\ log' = AppendRecord(log, log_opens,
               Record(total_drag[0], total_lift[0],
                      global_pres_point[0][1] - global_pres_point[0][2]))
  /\ post_pc' = "barrier"
  /\ UNCHANGED <<point_pressure, point_holders, pres_point, global_pres_point,
                 force_vars, log_opens, picard_vars, asm_vars, cell_vars, pipe_vars, block_vars, sync_vars>>

\* MPI_Barrier(MPI_COMM_WORLD); compute_lift_drag returns.
Barrier ==
  /\ post_pc = "barrier"
  /\ post_pc' = "done"
  /\ UNCHANGED <<point_vars, force_vars, log_vars, picard_vars, asm_vars, cell_vars, pipe_vars, block_vars, sync_vars>>

\* The records earlier passes left in the log.
EarlierLogs == {<<>>, <<Record(0, 0, 0)>>}

\* SpecPost: the whole of compute_lift_drag on a mesh whose faces all lie on
\* the obstacle, cells dealt round-robin, for every point pressure, every
\* set of holders, both outcomes of opening the log.
InitPost ==
  /\ PicardIdle
  /\ CellIdle
  /\ PipeIdle
  /\ BlockIdle
  /\ SyncIdle
  /\ asm_pc = "idle"
  /\ face_tag = [f \in Faces |-> {OBSTACLE}]
  /\ face_flux = [f \in Faces |-> 0]
  /\ stokes_neumann = {}
  /\ stokes_rhs = [f \in Faces |-> 0]
  /\ incr_neumann = {}
  /\ incr_rhs = [f \in Faces |-> 0]
  /\ post_pc = "integrate"
  /\ point_pressure \in [Points -> PressureValues]
  /\ point_holders \in [Points -> SUBSET Workers]
  /\ pres_point = [w \in Workers |-> [i \in Points |-> 0]]
  /\ global_pres_point = [w \in Workers |-> [i \in Points |-> 0]]
  /\ p_diff = "unset"
  /\ cell_owner = [c \in Cells |-> (c - 1) % NWorkers]
  /\ face_stress \in {[f \in Faces |-> [drag |-> d, lift |-> 0 - d]] : d \in 1..MaxVal}
  /\ integrated = [w \in Workers |-> <<>>]
  /\ local_drag = ZeroPerWorker
  /\ local_lift = ZeroPerWorker
  /\ total_drag = ZeroPerWorker
  /\ total_lift = ZeroPerWorker
  /\ log_opens \in BOOLEAN
  /\ log \in EarlierLogs

NextPost ==
  \/ IntegrateForces
  \/ ReduceForces
  \/ EvaluatePoints
  \/ ReducePressure
  \/ ComputeDifference
  \/ Barrier

SpecPost == InitPost /\ [][NextPost]_vars

\* C10: when exactly one worker holds a point and every other worker
\* contributes 0, rank 0 receives the value that worker evaluated, for
\* every value the pressure can take, and the difference written is the
\* difference of the two values so selected.
C10_ReductionSelectsHolder ==
  /\ post_pc \in {"difference", "barrier", "done"} =>
       \A i \in Points :
         Cardinality(point_holders[i]) = 1 =>
           global_pres_point[0][i] = point_pressure[i]
  /\ (post_pc \in {"barrier", "done"}
        /\ \A i \in Points : Cardinality(point_holders[i]) = 1) =>
       p_diff = point_pressure[1] - point_pressure[2]

\* A point of interest no worker can evaluate.
UnavailableEverywhere(i) == point_holders[i] = {}

C13_ExactlyOneRecordPerPass ==
  [][ /\ post_pc = "difference" =>
           log' = Append(log, <<total_drag[0], total_lift[0], p_diff'>>)
      /\ post_pc # "difference" => log' = log ]_vars

\* ------------------------------------------------------------------------
\* The force integration on its own (specification SpecForce): the cell and
\* face loops and the two sum-reductions, for every tagging of the faces,
\* every partition of the cells among the workers and every face integral.
\* ------------------------------------------------------------------------
ForceFaceTags == {{}, {WALLS}, {OBSTACLE}}

InitForce ==
  /\ PicardIdle
  /\ CellIdle
  /\ PipeIdle
  /\ BlockIdle
  /\ SyncIdle
  /\ asm_pc = "idle"
  /\ face_tag \in [Faces -> ForceFaceTags]
  /\ face_flux = [f \in Faces |-> 0]
  /\ stokes_neumann = {}
  /\ stokes_rhs = [f \in Faces |-> 0]
  /\ incr_neumann = {}
  /\ incr_rhs = [f \in Faces |-> 0]
  /\ post_pc = "integrate"
  /\ PointIdle
  /\ LogIdle
  /\ cell_owner \in [Cells -> Workers]
  /\ face_stress \in [Faces -> StressValues]
  /\ integrated = [w \in Workers |-> <<>>]
  /\ local_drag = ZeroPerWorker
  /\ local_lift = ZeroPerWorker
  /\ total_drag = ZeroPerWorker
  /\ total_lift = ZeroPerWorker

NextForce == IntegrateForces \/ ReduceForces

SpecForce == InitForce /\ [][NextForce]_vars

\* How many times face f was integrated, over all workers.
TimesIntegrated(f) ==
  Cardinality({<<w, n>> \in Workers \X (1..NFaces) :
                 n <= Len(integrated[w]) /\ integrated[w][n] = f})

RECURSIVE SerialForce(_, _)
\* The force one worker owning the whole mesh accumulates over the first f faces.
SerialForce(field, f) ==
  IF f = 0 THEN 0
  ELSE SerialForce(field, f - 1)
       + (IF OBSTACLE \in face_tag[f] THEN face_stress[f][field] ELSE 0)

\* C12: for any partition of the cells, every face tagged as the obstacle
\* (tag 3) is integrated exactly once, by the worker owning its cell, and
\* no other face is integrated; the sum-reduced drag and lift are the totals
\* over those faces and exist on rank 0 only.
C12_ObstacleFacesIntegratedOnce ==
  /\ post_pc \in {"reduce_forces", "evaluate"} =>
       \A f \in Faces :
         /\ OBSTACLE \in face_tag[f] =>
              /\ TimesIntegrated(f) = 1
              /\ \E n \in 1..Len(integrated[cell_owner[face_cell(f)]]) :
                   integrated[cell_owner[face_cell(f)]][n] = f
         /\ OBSTACLE \notin face_tag[f] => TimesIntegrated(f) = 0
  /\ post_pc = "evaluate" =>
       /\ total_drag[0] = SerialForce("drag", NFaces)
       /\ total_lift[0] = SerialForce("lift", NFaces)
       /\ \A w \in Workers \ {0} : total_drag[w] = 0 /\ total_lift[w] = 0

C12_Witness ==
  /\ post_pc = "evaluate"
  /\ \E f, g, h \in Faces :
       /\ OBSTACLE \in face_tag[f]
       /\ OBSTACLE \in face_tag[g]
       /\ cell_owner[face_cell(f)] = 0
       /\ cell_owner[face_cell(g)] # 0
       /\ face_tag[h] = {WALLS}
  /\ total_drag[0] > local_drag[0]
  /\ total_lift[0] # total_drag[0]

\* ------------------------------------------------------------------------
\* setup() and assemble() of the two variants over the cells of the mesh
\* (specification SpecCells): the sparsity patterns, the cell loop of every
\* worker and the finalizing compress.
\* ------------------------------------------------------------------------
Variants == {"Stokes", "IncrementalStokes"}

\* The block a global index lies in: 0 velocity, 1 pressure.
block_component(k) == IF k \in VelocityDoFs THEN 0 ELSE 1

\* The coupling tables of setup(): Stokes leaves out the pressure-pressure
\* pair, IncrementalStokes sets every pair to DoFTools::always.
Coupling(v, c, d) ==
  IF v = "Stokes" THEN ~(c = 1 /\ d = 1) ELSE TRUE

\* The table both variants use for the pattern of pressure_mass.
CouplingPressureMass == [cd \in {0, 1} \X {0, 1} |-> cd[1] = 1 /\ cd[2] = 1]

\* DoFTools::make_sparsity_pattern: the pairs of indices that share a cell
\* and whose components couple.
make_sparsity_pattern(couples) ==
  {e \in Entries :
     /\ \E c \in Cells : e[1] \in cell_dofs[c] /\ e[2] \in cell_dofs[c]
     /\ couples[block_component(e[1]), block_component(e[2])]}

SystemCouples == [cd \in {0, 1} \X {0, 1} |-> Coupling(variant, cd[1], cd[2])]

\* IncrementalStokes passes (constraints, keep_constrained_dofs = false):
\* of a constrained row or column only the diagonal entry is allocated.
PatternKeeps(e) ==
  \/ variant = "Stokes"
  \/ e[1] \notin constrained /\ e[2] \notin constrained
  \/ e[1] = e[2]

\* setup(): the two sparsity patterns, then reinit() of the matrices.
SetupMatrices ==
  /\ cells_pc = "setup"
  /\ sparsity' = {e \in make_sparsity_pattern(SystemCouples) : PatternKeeps(e)}
  /\ sparsity_pressure_mass' =
       {e \in make_sparsity_pattern(CouplingPressureMass) : PatternKeeps(e)}
  /\ assembling' = Workers
  /\ cells_pc' = "assemble"
  /\ UNCHANGED <<variant, cell_dofs, cell_weight, assembled_by, added_matrix,
                 added_rhs, added_pressure_mass, system_matrix, system_rhs,
                 pressure_mass, picard_vars, asm_vars, post_vars, pipe_vars, block_vars, sync_vars>>

\* cell_matrix(i, j) / local_matrix(i, j): every term has a velocity shape
\* function as a factor, so the pressure-pressure pairs stay 0.
local_matrix(c, i, j) ==
  IF block_component(i) = 1 /\ block_component(j) = 1 THEN 0 ELSE cell_weight[c]

\* cell_pressure_mass_matrix(i, j): pressure shape functions only.
cell_pressure_mass_matrix(c, i, j) ==
  IF block_component(i) = 1 /\ block_component(j) = 1 THEN cell_weight[c] ELSE 0

\* cell_rhs(i) / local_rhs[i]: tested with the velocity shape functions.
local_rhs(c, i) == IF block_component(i) = 0 THEN cell_weight[c] ELSE 0

RECURSIVE InhomogeneousPart(_, _, _)
\* Sum over the constrained columns j <= n of cell c of local_matrix(i, j) * g_j.
InhomogeneousPart(c, i, n) ==
  IF n = 0 THEN 0
  ELSE InhomogeneousPart(c, i, n - 1)
       + (IF n \in cell_dofs[c] /\ n \in constrained
          THEN local_matrix(c, i, n) * inhomogeneity[n] ELSE 0)

\* What the insertion call of cell c adds to entry (i, j) of system_matrix:
\* system_matrix.add(dof_indices, cell_matrix) for Stokes,
\* constraints.distribute_local_to_global(...) for IncrementalStokes (rows
\* and columns of constrained indices are condensed away, the diagonal of a
\* constrained row is kept).
MatrixContribution(c, i, j) ==
  IF ~(i \in cell_dofs[c] /\ j \in cell_dofs[c]) THEN 0
  ELSE IF variant = "Stokes" THEN local_matrix(c, i, j)
  ELSE IF i \notin constrained /\ j \notin constrained THEN local_matrix(c, i, j)
  ELSE IF i = j THEN local_matrix(c, i, i)
  ELSE 0

\* The same for system_rhs.
RhsContribution(c, i) ==
  IF i \notin cell_dofs[c] THEN 0
  ELSE IF variant = "Stokes" THEN local_rhs(c, i)
  ELSE IF i \in constrained THEN 0
  ELSE local_rhs(c, i) - InhomogeneousPart(c, i, NDoF)

\* pressure_mass.add(dof_indices, cell_pressure_mass_matrix): Stokes only.
PressureMassContribution(c, i, j) ==
  IF i \in cell_dofs[c] /\ j \in cell_dofs[c] /\ variant = "Stokes"
  THEN cell_pressure_mass_matrix(c, i, j) ELSE 0

RECURSIVE CellsVisited(_, _)
\* The cells among the first c that pass if (!cell->is_locally_owned()) continue;
CellsVisited(w, c) ==
  IF c = 0 THEN <<>>
  ELSE CellsVisited(w, c - 1) \o (IF is_locally_owned(w, c) THEN <<c>> ELSE <<>>)

RECURSIVE AddedOver(_, _, _)
\* The sum of contribution[c] over the first n cells of the sequence cs.
AddedOver(cs, contribution, n) ==
  IF n = 0 THEN 0 ELSE AddedOver(cs, contribution, n - 1) + contribution[cs[n]]

\* Mutant of reset_before_pass: the values of the last pass are kept.
kept_from_last_pass(value) == value

\* this->system_matrix = 0.0; this->system_rhs = 0.0 at the head of
\* assemble(): what the reset leaves of a stored value.
reset_before_pass(value) == 0

\* The reset and the cell loop of assemble() on worker w, up to its call of
\* compress; a worker resets the rows it owns.
AssembleCells(w) ==
  /\ cells_pc = "assemble"
  /\ w \in assembling
  /\ system_matrix' = [e \in Entries |->
        IF owner[e[1]] = w THEN reset_before_pass(system_matrix[e]) ELSE system_matrix[e]]
  /\ system_rhs' = [i \in DoFs |->
        IF owner[i] = w THEN reset_before_pass(system_rhs[i]) ELSE system_rhs[i]]
  /\ LET cs == CellsVisited(w, NCells)
     IN  /\ assembled_by' = [assembled_by EXCEPT ![w] = cs]
         /\ added_matrix' = [added_matrix EXCEPT ![w] =
              [e \in Entries |->
                 LET at == [c \in Cells |-> MatrixContribution(c, e[1], e[2])]
                 IN  AddedOver(cs, at, Len(cs))]]
         /\ added_rhs' = [added_rhs EXCEPT ![w] =
              [i \in DoFs |->
                 LET at == [c \in Cells |-> RhsContribution(c, i)]
                 IN  AddedOver(cs, at, Len(cs))]]
         /\ added_pressure_mass' = [added_pressure_mass EXCEPT ![w] =
              [e \in Entries |->
                 LET at == [c \in Cells |-> PressureMassContribution(c, e[1], e[2])]
                 IN  AddedOver(cs, at, Len(cs))]]
  /\ assembling' = assembling \ {w}
  /\ cells_pc' = IF assembling = {w} THEN "compress" ELSE "assemble"
  /\ UNCHANGED <<variant, cell_dofs, cell_weight, sparsity, sparsity_pressure_mass,
                 pressure_mass,
                 picard_vars, asm_vars, post_vars, pipe_vars, block_vars, sync_vars>>

\* Mutant of compress_add: the contributions other workers hold for a row
\* are not communicated; the owner of the row keeps its own only.
compress_own_only(buf, row, e) == buf[owner[row]][e]

RECURSIVE SumOverWorkers(_, _, _)
SumOverWorkers(buf, e, w) ==
  IF w < 0 THEN 0 ELSE SumOverWorkers(buf, e, w - 1) + buf[w][e]

\* compress(VectorOperation::add): the owner of a row receives what every
\* worker added to it and sums.
compress_add(buf, row, e) == SumOverWorkers(buf, e, NWorkers - 1)

\* system_matrix.compress(add); system_rhs.compress(add); pressure_mass.compress(add)
\* once every worker has left its cell loop: the sums are added to what the
\* rows hold.
Compress ==
  /\ cells_pc = "compress"
  /\ system_matrix' =
       [e \in Entries |-> system_matrix[e] + compress_add(added_matrix, e[1], e)]
  /\ system_rhs' = [i \in DoFs |-> system_rhs[i] + compress_add(added_rhs, i, i)]
  /\ pressure_mass' = [e \in Entries |-> compress_add(added_pressure_mass, e[1], e)]
  /\ cells_pc' = "done"
  /\ UNCHANGED <<variant, cell_dofs, cell_weight, assembling, assembled_by,
                 added_matrix, added_rhs, added_pressure_mass, sparsity,
                 sparsity_pressure_mass, picard_vars, asm_vars, post_vars, pipe_vars, block_vars, sync_vars>>

\* The next call of assemble() in the Picard loop of IncrementalStokes: the
\* cell terms are those of the new previous iterate.
NextPass ==
  /\ cells_pc = "done"
  /\ variant = "IncrementalStokes"
  /\ iter + 1 < MaxPasses
  /\ iter' = iter + 1
  /\ cell_weight' \in [Cells -> 1..MaxVal]
  /\ assembling' = Workers
  /\ assembled_by' = [w \in Workers |-> <<>>]
  /\ cells_pc' = "assemble"
  /\ UNCHANGED <<variant, cell_dofs, added_matrix, added_rhs, added_pressure_mass,
                 sparsity, sparsity_pressure_mass, system_matrix, system_rhs,
                 pressure_mass, pc, exception, dof_boundary, owner, ghosts, constrained,
                 inhomogeneity, system_lin, solution_owned, solution, solution_old,
                 update_norm_sq, measured, raw_differs, get_resudial_,
                 asm_vars, post_vars, pipe_vars, block_vars, sync_vars>>

\* Meshes of SpecCells: every cell has at least one DoF, the pressure DoFs
\* are interior, a velocity DoF is interior or on the inlet.
CellMeshLocations ==
  {loc \in [DoFs -> {{}, {INLET}}] : \A k \in PressureDoFs : loc[k] = {}}

InitCells ==
  /\ pc = "idle"
  /\ exception = "none"
  /\ dof_boundary \in CellMeshLocations
  /\ owner = RoundRobin
  /\ ghosts = [k \in DoFs |-> {}]
  /\ constrained = ConstrainedDoFs(dof_boundary)
  /\ inhomogeneity = [k \in DoFs |->
        IF k \in ConstrainedDoFs(dof_boundary) THEN PrescribedValue(dof_boundary, k)
        ELSE 0]
  /\ iter = 0
  /\ system_lin = ZeroVector
  /\ solution_owned = ZeroVector
  /\ solution = ZeroVector
  /\ solution_old = ZeroVector
  /\ update_norm_sq = 0
  /\ measured = 0
  /\ raw_differs = FALSE
  /\ get_resudial_ = "unset"
  /\ AsmIdle
  /\ post_pc = "idle"
  /\ PointIdle
  /\ LogIdle
  /\ cell_owner \in [Cells -> Workers]
  /\ face_stress = [f \in Faces |-> [drag |-> 0, lift |-> 0]]
  /\ integrated = [w \in Workers |-> <<>>]
  /\ local_drag = ZeroPerWorker
  /\ local_lift = ZeroPerWorker
  /\ total_drag = ZeroPerWorker
  /\ total_lift = ZeroPerWorker
  /\ PipeIdle
  /\ BlockIdle
  /\ SyncIdle
  /\ cells_pc = "setup"
  /\ variant \in Variants
  /\ cell_dofs \in [Cells -> (SUBSET DoFs) \ {{}}]
  /\ cell_weight \in [Cells -> 1..MaxVal]
  /\ assembling = {}
  /\ assembled_by = [w \in Workers |-> <<>>]
  /\ added_matrix = [w \in Workers |-> ZeroMatrix]
  /\ added_rhs = [w \in Workers |-> ZeroVector]
  /\ added_pressure_mass = [w \in Workers |-> ZeroMatrix]
  /\ sparsity = {}
  /\ sparsity_pressure_mass = {}
  /\ system_matrix = ZeroMatrix
  /\ system_rhs = ZeroVector
  /\ pressure_mass = ZeroMatrix

NextCells ==
  \/ SetupMatrices
  \/ \E w \in Workers : AssembleCells(w)
  \/ Compress
  \/ NextPass

SpecCells == InitCells /\ [][NextCells]_vars

\* How many times cell c was assembled, over all workers.
TimesAssembled(c) ==
  Cardinality({<<w, n>> \in Workers \X (1..NCells) :
                 n <= Len(assembled_by[w]) /\ assembled_by[w][n] = c})

RECURSIVE SerialSum(_, _)
\* The sum of contribution[c] over the cells 1..c, each taken once.
SerialSum(contribution, c) ==
  IF c = 0 THEN 0 ELSE SerialSum(contribution, c - 1) + contribution[c]

\* C14: in an assembly pass every cell is assembled by exactly one worker,
\* its owner, and skipped by the others; after the finalizing compress every
\* entry of the matrix and of the right-hand side is the sum of the
\* contributions of all cells, each counted exactly once, whatever the
\* partition of the cells among the workers.
C14_EachCellAssembledOnce ==
  /\ cells_pc \in {"compress", "done"} =>
       \A c \in Cells :
         /\ TimesAssembled(c) = 1
         /\ \E n \in 1..Len(assembled_by[cell_owner[c]]) :
              assembled_by[cell_owner[c]][n] = c
  /\ cells_pc = "done" =>
       /\ \A e \in Entries :
            LET at == [c \in Cells |-> MatrixContribution(c, e[1], e[2])]
            IN  system_matrix[e] = SerialSum(at, NCells)
       /\ \A i \in DoFs :
            LET at == [c \in Cells |-> RhsContribution(c, i)]
            IN  system_rhs[i] = SerialSum(at, NCells)

C14_Witness ==
  /\ cells_pc = "done"
  /\ \E c, d \in Cells :
       /\ cell_owner[c] # cell_owner[d]
       /\ \E i \in cell_dofs[c] \cap cell_dofs[d] :
            /\ owner[i] # cell_owner[d]
            /\ system_matrix[<<i, i>>] = cell_weight[c] + cell_weight[d]
            /\ system_rhs[i] # 0

\* The entries of block (1, 1), pressure rows and pressure columns.
PressurePressure == PressureDoFs \X PressureDoFs
\* The entries of block (0, 0), velocity rows and velocity columns.
MomentumMomentum == VelocityDoFs \X VelocityDoFs

\* The entries of a matrix that hold a value.
Populated(m) == {e \in Entries : m[e] # 0}

\* C16: the system matrix of either variant has no allocated and no written
\* entry in its pressure-pressure block, its momentum-momentum block is
\* populated, and a pressure-pressure block is populated only in
\* pressure_mass.
C16_PressureBlockUnpopulated ==
  /\ cells_pc \in {"assemble", "compress", "done"} =>
       /\ sparsity \cap PressurePressure = {}
       /\ (\E c \in Cells : cell_dofs[c] \cap VelocityDoFs # {}) =>
            sparsity \cap MomentumMomentum # {}
  /\ cells_pc = "done" =>
       /\ Populated(system_matrix) \cap PressurePressure = {}
       /\ Populated(pressure_mass) \subseteq PressurePressure
       /\ (\E c \in Cells : cell_dofs[c] \cap VelocityDoFs # {}) =>
            Populated(system_matrix) \cap MomentumMomentum # {}

\* ------------------------------------------------------------------------
\* run_full_problem_pipeline (specification SpecPipeline): the Stokes
\* problem, then the IncrementalStokes problem started from its solution.
\* ------------------------------------------------------------------------
\* Mutant of OnMeshFileMissing: the failure is reported and setup goes on.
MeshFileMissingIgnored == [pc |-> "stokes_assemble", exception |-> "none"]

\* AssertThrow(grid_in_file, ExcMessage("Could not open mesh file ...")):
\* the exception leaves setup() and, uncaught, the pipeline.
OnMeshFileMissing == [pc |-> "threw", exception |-> "ExcMessage"]

\* stokes_problem.setup(): SteadyNavierStokes<dim>::setup() reads the mesh,
\* then the finite element space and the linear system are initialized.
StokesSetup ==
  /\ pipe_pc = "stokes_setup"
  /\ pipe_pc' = IF mesh_file_opens THEN "stokes_assemble" ELSE OnMeshFileMissing.pc
  /\ pipe_exception' = IF mesh_file_opens THEN "none" ELSE OnMeshFileMissing.exception
  /\ performed' = IF mesh_file_opens THEN Append(performed, "stokes.setup") ELSE performed
  /\ UNCHANGED <<mesh_file_opens, boundary_values, stokes_solution_owned,
                 stokes_solution_ghosted, stokes_solution,
                 picard_vars, asm_vars, post_vars, cell_vars, block_vars, sync_vars>>

\* Mutant of StokesDirichletTags: the obstacle is left out.
StokesDirichletTagsNoObstacle == {INLET, WALLS}

\* Stokes<dim>::assemble: boundary_functions[0], [2], [3]
StokesDirichletTags == {INLET, WALLS, OBSTACLE}

\* ComponentMask({true, true, false, false}) / ({true, true, true, false})
StokesComponentMask(k) == k \in VelocityDoFs

\* boundary_functions[0] = &inlet_velocity, [2] = [3] = &zero_function
StokesBoundaryFunction(loc, k) == IF INLET \in loc[k] THEN inlet_velocity(k) ELSE 0

\* VectorTools::interpolate_boundary_values(dof_handler, boundary_functions,
\*                                          boundary_values, mask)
interpolate_boundary_values(loc) ==
  [k \in {j \in DoFs : StokesComponentMask(j) /\ loc[j] \cap StokesDirichletTags # {}}
     |-> StokesBoundaryFunction(loc, k)]

\* MatrixTools::apply_boundary_values(boundary_values, system_matrix,
\* solution_owned, system_rhs, false): the row of every index of the map is
\* reduced to its diagonal, the right-hand side becomes diagonal * value and
\* the entry of the solution vector becomes the value.
apply_boundary_values(bv, v) ==
  [k \in DoFs |-> IF k \in DOMAIN bv THEN bv[k] ELSE v[k]]

\* stokes_problem.assemble(): the cell loop and compress (see SpecCells),
\* then the Dirichlet rows.
StokesAssemble ==
  /\ pipe_pc = "stokes_assemble"
  /\ boundary_values' = interpolate_boundary_values(dof_boundary)
  /\ stokes_solution_owned' =
       apply_boundary_values(interpolate_boundary_values(dof_boundary),
                             stokes_solution_owned)
  /\ performed' = Append(performed, "stokes.assemble")
  /\ pipe_pc' = "stokes_solve"
  /\ UNCHANGED <<mesh_file_opens, pipe_exception, stokes_solution_ghosted,
                 stokes_solution, picard_vars, asm_vars, post_vars, cell_vars, block_vars, sync_vars>>

\* What GMRES leaves of an eliminated row: its equation is
\* diagonal * x_k = diagonal * value with no other entry in the row, so where
\* the initial guess x0 already holds the value the residual of the row is
\* 0, every Krylov vector is 0 there and the entry is returned as it was.
KeepsSolvedRows(bv, x0, x) ==
  \A k \in DOMAIN bv : x0[k] = bv[k] => x[k] = x0[k]

\* Stokes<dim>::solve(): solver.solve(...) reaching the tolerance within
\* SolverControl(2000, 1e-6 * |rhs|); this->solution = this->solution_owned.
StokesGmresReturn(x) ==
  /\ pipe_pc = "stokes_solve"
  /\ KeepsSolvedRows(boundary_values, stokes_solution_owned, x)
  /\ stokes_solution_owned' = x
  /\ stokes_solution_ghosted' = x
  /\ performed' = Append(performed, "stokes.solve")
  /\ pipe_pc' = "stokes_output"
  /\ UNCHANGED <<mesh_file_opens, pipe_exception, boundary_values, stokes_solution,
                 picard_vars, asm_vars, post_vars, cell_vars, block_vars, sync_vars>>

\* Stokes<dim>::solve(): solver.solve(...) exhausting its budget; the
\* exception leaves solve() and the pipeline.
StokesGmresNoConvergence ==
  /\ pipe_pc = "stokes_solve"
  /\ pipe_pc' = OnNoConvergence.pc
  /\ pipe_exception' = OnNoConvergence.exception
  /\ UNCHANGED <<mesh_file_opens, performed, boundary_values, stokes_solution_owned,
                 stokes_solution_ghosted, stokes_solution,
                 picard_vars, asm_vars, post_vars, cell_vars, block_vars, sync_vars>>

\* stokes_problem.output()
StokesOutput ==
  /\ pipe_pc = "stokes_output"
  /\ performed' = Append(performed, "stokes.output")
  /\ pipe_pc' = "construct"
  /\ UNCHANGED <<mesh_file_opens, pipe_exception, boundary_values,
                 stokes_solution_owned, stokes_solution_ghosted, stokes_solution,
                 picard_vars, asm_vars, post_vars, cell_vars, block_vars, sync_vars>>

\* Mutant of stokes_vector_after_copy: the vector is moved out of the
\* Stokes object, which is left with an empty one.
stokes_vector_moved_from(v) == ZeroVector

\* What the copy-initialisation BlockVector stokes_solution = get_solution()
\* leaves of the vector of the Stokes object: the copy constructor reads it.
stokes_vector_after_copy(v) == v

\* stokes_solution = stokes_problem.get_solution();
\* IncrementalStokes<dim> incremental_stokes(stokes_problem);
ConstructIncremental ==
  /\ pipe_pc = "construct"
  /\ stokes_solution' = stokes_solution_ghosted
  /\ stokes_solution_ghosted' = stokes_vector_after_copy(stokes_solution_ghosted)
  /\ pc' = "constructed"
  /\ pipe_pc' = "incremental"
  /\ UNCHANGED <<mesh_file_opens, pipe_exception, performed, boundary_values,
                 stokes_solution_owned,
                 exception, dof_boundary, owner, ghosts, constrained, inhomogeneity,
                 iter, system_lin, solution_owned, solution, solution_old,
                 update_norm_sq, measured, raw_differs, get_resudial_,
                 asm_vars, post_vars, cell_vars, block_vars, sync_vars>>

\* incremental_stokes.solve() left by an exception: nothing catches it.
IncrementalThrows ==
  /\ pipe_pc = "incremental"
  /\ pc = "threw"
  /\ pipe_pc' = "threw"
  /\ pipe_exception' = exception
  /\ UNCHANGED <<mesh_file_opens, performed, boundary_values, stokes_solution_owned,
                 stokes_solution_ghosted, stokes_solution,
                 picard_vars, asm_vars, post_vars, cell_vars, block_vars, sync_vars>>

\* incremental_stokes.output(), once solve() has returned
IncrementalOutput ==
  /\ pipe_pc = "incremental"
  /\ pc = "returned"
  /\ performed' = Append(performed, "incremental.output")
  /\ pipe_pc' = "lift_drag"
  /\ UNCHANGED <<mesh_file_opens, pipe_exception, boundary_values,
                 stokes_solution_owned, stokes_solution_ghosted, stokes_solution,
                 picard_vars, asm_vars, post_vars, cell_vars, block_vars, sync_vars>>

\* incremental_stokes.compute_lift_drag() (see SpecPost), end of the pipeline
ComputeLiftDrag ==
  /\ pipe_pc = "lift_drag"
  /\ performed' = Append(performed, "incremental.compute_lift_drag")
  /\ pipe_pc' = "finished"
  /\ UNCHANGED <<mesh_file_opens, pipe_exception, boundary_values,
                 stokes_solution_owned, stokes_solution_ghosted, stokes_solution,
                 picard_vars, asm_vars, post_vars, cell_vars, block_vars, sync_vars>>

\* Meshes of the pipeline specification: the velocity DoFs lie on one and
\* the same region.
PipelineMeshes ==
  {loc \in MeshLocations : \A j, k \in VelocityDoFs : loc[j] = loc[k]}

InitPipeline ==
  /\ pc = "idle"
  /\ exception = "none"
  /\ dof_boundary \in PipelineMeshes
  /\ owner = RoundRobin
  /\ ghosts = [k \in DoFs |-> {}]
  /\ constrained = {}
  /\ inhomogeneity = ZeroVector
  /\ iter = 0
  /\ system_lin = ZeroVector
  /\ solution_owned = ZeroVector
  /\ solution = ZeroVector
  /\ solution_old = ZeroVector
  /\ update_norm_sq = 0
  /\ measured = 0
  /\ raw_differs = FALSE
  /\ get_resudial_ = "unset"
  /\ AsmIdle
  /\ PostIdle
  /\ CellIdle
  /\ pipe_pc = "stokes_setup"
  /\ mesh_file_opens \in BOOLEAN
  /\ pipe_exception = "none"
  /\ performed = <<>>
  /\ boundary_values = <<>>
  /\ stokes_solution_owned = ZeroVector
  /\ stokes_solution_ghosted = ZeroVector
  /\ stokes_solution = ZeroVector
  /\ BlockIdle
  /\ SyncIdle

\* The steps of the Stokes problem and of the pipeline itself.
StokesSteps ==
  \/ StokesSetup
  \/ StokesAssemble
  \/ \E x \in Vectors : StokesGmresReturn(x)
  \/ StokesGmresNoConvergence
  \/ StokesOutput
  \/ ConstructIncremental

\* set_initial_conditions(stokes_solution), setup() and solve() of the
\* IncrementalStokes problem.
IncrementalSteps ==
  \/ SetInitialConditions(stokes_solution)
  \/ Setup
  \/ SolveEnter
  \/ Assemble
  \/ SetZero
  \/ \E x \in Vectors : GmresReturn(x)
  \/ GmresNoConvergence
  \/ Distribute
  \/ Measure
  \/ EndOfCycle

NextPipeline ==
  \/ StokesSteps
  \/ pipe_pc = "incremental" /\ IncrementalSteps
  \/ IncrementalThrows
  \/ IncrementalOutput
  \/ ComputeLiftDrag

SpecPipeline == InitPipeline /\ [][NextPipeline]_vars

\* C15: when the mesh file cannot be opened, setup fails at once with an
\* exception raised to the caller of the pipeline, and no assembly, no
\* linear solve, no Picard cycle and no output is performed afterwards.
C15_MissingMeshStopsPipeline ==
  ~mesh_file_opens =>
    /\ pipe_pc \in {"stokes_setup", "threw"}
    /\ pipe_pc = "threw" => pipe_exception = "ExcMessage"
    /\ performed = <<>>
    /\ boundary_values = <<>>
    /\ pc = "idle"
    /\ measured = 0

C15_Witness ==
  /\ ~mesh_file_opens
  /\ pipe_pc = "threw"
  /\ pipe_exception = "ExcMessage"

\* C20: at the first assembly of the Picard loop the iteration counter is 0
\* and the previous iterate is the vector the caller passed to
\* set_initial_conditions, the Stokes solution; the setup() between
\* set_initial_conditions and solve() leaves it as it is.
C20_FirstAssemblyFromInitialCondition ==
  /\ (pipe_pc = "incremental" /\ pc \in {"setup", "solve"}) =>
       solution_old = stokes_solution
  /\ (pipe_pc = "incremental" /\ pc = "assemble" /\ measured = 0) =>
       /\ iter = 0
       /\ solution_old = stokes_solution
  /\ (pipe_pc = "incremental" /\ pc = "set_zero" /\ measured = 0) =>
       /\ iter = 0
       /\ system_lin = stokes_solution

C20_Witness ==
  /\ pipe_pc = "incremental"
  /\ pc = "set_zero"
  /\ measured = 0
  /\ system_lin = stokes_solution
  /\ stokes_solution # ZeroVector
  /\ solution = ZeroVector

\* Whether the pipeline has performed the step of that name.
Performed(step) == \E n \in 1..Len(performed) : performed[n] = step

\* C18: elimination after assembly (Stokes) and constraints at insertion
\* (IncrementalStokes) impose the same Dirichlet data: the same set of DoFs,
\* the velocity DoFs on inlet, walls and obstacle and no pressure DoF, with
\* the same prescribed values, and the solution of either problem holds
\* those values on that set.
C18_EliminationEqualsConstraints ==
  /\ (pipe_pc = "incremental" /\ pc \notin {"constructed", "setup"}) =>
       /\ DOMAIN boundary_values = constrained
       /\ \A k \in constrained : boundary_values[k] = inhomogeneity[k]
       /\ constrained =
            {k \in VelocityDoFs : dof_boundary[k] \cap {INLET, WALLS, OBSTACLE} # {}}
       /\ constrained \cap PressureDoFs = {}
  /\ Performed("stokes.solve") =>
       \A k \in DOMAIN boundary_values :
         /\ stokes_solution_owned[k] = boundary_values[k]
         /\ stokes_solution_ghosted[k] = boundary_values[k]
  /\ (pipe_pc = "incremental" /\ pc \in {"measure", "end_of_cycle", "returned"}) =>
       \A k \in constrained :
         /\ solution[k] = inhomogeneity[k]
         /\ solution[k] = stokes_solution_ghosted[k]

C18_Witness ==
  /\ pipe_pc = "incremental"
  /\ pc = "measure"
  /\ raw_differs
  /\ \E k \in constrained :
       /\ INLET \in dof_boundary[k]
       /\ stokes_solution_ghosted[k] = inlet_velocity(k)
       /\ solution[k] = inlet_velocity(k)
  /\ \E k \in DoFs \ constrained : stokes_solution_ghosted[k] # solution[k]

\* ------------------------------------------------------------------------
\* The block structure (specification SpecBlocks): the part of setup() that
\* splits the index sets of a worker into the velocity and the pressure
\* block and reinit()s the matrices and vectors with them, for every
\* partition of the DoFs into owned and ghost entries.  Stokes<dim>::setup
\* and IncrementalStokes<dim>::setup do this with the same statements.
\* ------------------------------------------------------------------------
\* The source counts global indices from 0: DoF k of the model is index k - 1.
index_of(k) == k - 1

\* dof_handler.locally_owned_dofs() on worker w
locally_owned_dofs(w) == {index_of(k) : k \in {j \in DoFs : owner[j] = w}}

\* DoFTools::extract_locally_relevant_dofs on worker w
locally_relevant_dofs(w) == {index_of(k) : k \in Relevant(w)}

\* IndexSet::get_view(begin, end): the indices of [begin, end), counted from begin
get_view(S, begin, end) == {i - begin : i \in {j \in S : begin <= j /\ j < end}}

\* get_view(0, n_u)
VelocityView == [begin |-> 0, end |-> n_u]

\* Mutant of PressureView: the view starts one index late.
PressureViewOffByOne == [begin |-> n_u + 1, end |-> n_u + n_p]

\* get_view(n_u, n_u + n_p)
PressureView == [begin |-> n_u, end |-> n_u + n_p]

\* block_owned_dofs[0] = ..., [1] = ... / block_relevant_dofs[0] = ..., [1] = ...
BlocksOf(S) ==
  << get_view(S, VelocityView.begin, VelocityView.end),
     get_view(S, PressureView.begin, PressureView.end) >>

\* setup() on worker w up to the two resize(2) / get_view pairs.
ComputeBlocks(w) ==
  /\ blocks_pc[w] = "index_sets"
  /\ block_owned_dofs' = [block_owned_dofs EXCEPT ![w] = BlocksOf(locally_owned_dofs(w))]
  /\ block_relevant_dofs' =
       [block_relevant_dofs EXCEPT ![w] = BlocksOf(locally_relevant_dofs(w))]
  /\ blocks_pc' = [blocks_pc EXCEPT ![w] = "reinit"]
  /\ UNCHANGED <<layout, picard_vars, asm_vars, post_vars, cell_vars, pipe_vars,
                 sync_vars>>

\* What each object is reinit()ed with: both sparsity patterns (hence both
\* matrices), system_rhs and solution_owned take block_owned_dofs, solution
\* takes block_owned_dofs and block_relevant_dofs.
ReinitWith(w, o) ==
  [owned |-> block_owned_dofs[w],
   relevant |-> IF o = "solution" THEN block_relevant_dofs[w] ELSE "none"]

\* setup() on worker w from the sparsity patterns to the last reinit().
ReinitObjects(w) ==
  /\ blocks_pc[w] = "reinit"
  /\ layout' = [layout EXCEPT ![w] = [o \in Objects |-> ReinitWith(w, o)]]
  /\ blocks_pc' = [blocks_pc EXCEPT ![w] = "done"]
  /\ UNCHANGED <<block_owned_dofs, block_relevant_dofs,
                 picard_vars, asm_vars, post_vars, cell_vars, pipe_vars, sync_vars>>

InitBlocks ==
  /\ pc = "idle"
  /\ exception = "none"
  /\ dof_boundary = [k \in DoFs |-> {}]
  /\ \E part \in Partitions : owner = part.owner /\ ghosts = part.ghosts
  /\ constrained = {}
  /\ inhomogeneity = ZeroVector
  /\ iter = 0
  /\ system_lin = ZeroVector
  /\ solution_owned = ZeroVector
  /\ solution = ZeroVector
  /\ solution_old = ZeroVector
  /\ update_norm_sq = 0
  /\ measured = 0
  /\ raw_differs = FALSE
  /\ get_resudial_ = "unset"
  /\ AsmIdle
  /\ PostIdle
  /\ CellIdle
  /\ PipeIdle
  /\ blocks_pc = [w \in Workers |-> "index_sets"]
  /\ block_owned_dofs = [w \in Workers |-> NoBlocks]
  /\ block_relevant_dofs = [w \in Workers |-> NoBlocks]
  /\ layout = [w \in Workers |-> [o \in Objects |-> "unset"]]
  /\ SyncIdle

NextBlocks ==
  \/ \E w \in Workers : ComputeBlocks(w)
  \/ \E w \in Workers : ReinitObjects(w)

SpecBlocks == InitBlocks /\ [][NextBlocks]_vars

\* The blocks an index of S falls in: 1 when it is a velocity index held by
\* the first block, 2 when it is a pressure index held by the second.
BlocksHolding(blocks, i) ==
  {b \in {1, 2} :
     \/ b = 1 /\ 0 <= i /\ i < n_u /\ i \in blocks[1]
     \/ b = 2 /\ n_u <= i /\ i < n_u + n_p /\ (i - n_u) \in blocks[2]}

\* The two blocks hold the indices of S, each exactly once, and nothing else.
SplitsExactly(blocks, S) ==
  /\ \A i \in S : Cardinality(BlocksHolding(blocks, i)) = 1
  /\ Cardinality(blocks[1]) + Cardinality(blocks[2]) = Cardinality(S)

\* C17: the velocity block and the pressure block partition the unknowns:
\* every locally owned and every locally relevant index lies in exactly one
\* block, the velocity indices [0, n_u) come before the pressure indices
\* [n_u, n_u + n_p), and the system matrix, the pressure-mass matrix, the
\* right-hand side and the solution vectors are all built on that partition.
C17_BlocksPartitionTheUnknowns ==
  \A w \in Workers :
    /\ blocks_pc[w] \in {"reinit", "done"} =>
         /\ SplitsExactly(block_owned_dofs[w], locally_owned_dofs(w))
         /\ SplitsExactly(block_relevant_dofs[w], locally_relevant_dofs(w))
         /\ \A i \in locally_relevant_dofs(w) :
              /\ 1 \in BlocksHolding(block_relevant_dofs[w], i) <=> i < n_u
              /\ 2 \in BlocksHolding(block_relevant_dofs[w], i) <=> i >= n_u
    /\ blocks_pc[w] = "done" =>
         /\ \A o \in Objects : layout[w][o].owned = block_owned_dofs[w]
         /\ layout[w]["solution"].relevant = block_relevant_dofs[w]
         /\ \A o, q \in Objects : layout[w][o].owned = layout[w][q].owned

C17_Witness ==
  \E w \in Workers :
    /\ blocks_pc[w] = "done"
    /\ block_owned_dofs[w][1] # {}
    /\ block_relevant_dofs[w][2] # block_owned_dofs[w][2]
    /\ layout[w]["solution"].relevant[2] # {}

\* ------------------------------------------------------------------------
\* The Picard loop as the workers run it (specification SpecSync): every MPI
\* process executes IncrementalStokes<dim>::solve on its own, with its own
\* iter, and meets the others only in the collective calls: the two
\* compress(VectorOperation::add), system_rhs.l2_norm(), the GMRES solve and
\* MPI_Allreduce.  The entries of the vectors are left out; a worker's
\* local_sum is any value of the entry range.
\* ------------------------------------------------------------------------
\* The calls of one cycle, in program order (lines 761-811).
Phases == << "assemble", "compress_matrix", "compress_rhs", "l2_norm", "solve",
             "distribute", "measure", "allreduce", "advance" >>

\* Position of a call in the cycle; a worker that left the loop is past all of them.
Rank(phase) ==
  IF \E n \in 1..Len(Phases) : Phases[n] = phase
    THEN CHOOSE n \in 1..Len(Phases) : Phases[n] = phase
    ELSE Len(Phases) + 1

\* Worker v has called `phase` of cycle k (or is already beyond it).
Reached(v, k, phase) ==
  \/ sync_iter[v] > k
  \/ sync_iter[v] = k /\ Rank(sync_pc[v]) >= Rank(phase)

\* Mutant of AllEntered: a collective call returns without the other workers.
AllEnteredNoWait(w, phase) == TRUE

\* A collective call returns on worker w once every worker has made the call.
AllEntered(w, phase) == \A v \in Workers : Reached(v, sync_iter[w], phase)

\* double update_norm = update_tol + 1.0 (line 765)
update_norm_before_solve == update_tol + 1

\* assemble(), the cell loop of worker w (lines 660-748); the worker then
\* calls system_matrix.compress.
AssembleLocal(w) ==
  /\ sync_pc[w] = "assemble"
  /\ sync_pc' = [sync_pc EXCEPT ![w] = "compress_matrix"]
  /\ UNCHANGED <<sync_iter, sync_local_sum, sync_global_sum, gmres_fails_at,
                 picard_vars, asm_vars, post_vars, cell_vars, pipe_vars, block_vars>>

\* system_matrix.compress(VectorOperation::add) returns (line 750).
CompressMatrix(w) ==
  /\ sync_pc[w] = "compress_matrix"
  /\ AllEntered(w, "compress_matrix")
  /\ sync_pc' = [sync_pc EXCEPT ![w] = "compress_rhs"]
  /\ UNCHANGED <<sync_iter, sync_local_sum, sync_global_sum, gmres_fails_at,
                 picard_vars, asm_vars, post_vars, cell_vars, pipe_vars, block_vars>>

\* system_rhs.compress(VectorOperation::add) returns (line 751); assemble()
\* returns and the worker calls system_rhs.l2_norm().
CompressRhs(w) ==
  /\ sync_pc[w] = "compress_rhs"
  /\ AllEntered(w, "compress_rhs")
  /\ sync_pc' = [sync_pc EXCEPT ![w] = "l2_norm"]
  /\ UNCHANGED <<sync_iter, sync_local_sum, sync_global_sum, gmres_fails_at,
                 picard_vars, asm_vars, post_vars, cell_vars, pipe_vars, block_vars>>

\* system_rhs.l2_norm() returns (line 763); the test of line 767 and, in its
\* else branch, set_zero and the call of solver.solve (lines 771-780).
RhsNorm(w) ==
  /\ sync_pc[w] = "l2_norm"
  /\ AllEntered(w, "l2_norm")
  /\ sync_pc' = [sync_pc EXCEPT ![w] =
                   IF update_norm_before_solve < update_tol THEN "done" ELSE "solve"]
  /\ UNCHANGED <<sync_iter, sync_local_sum, sync_global_sum, gmres_fails_at,
                 picard_vars, asm_vars, post_vars, cell_vars, pipe_vars, block_vars>>

\* solver.solve returns (line 780).
GmresReturns(w) ==
  /\ sync_pc[w] = "solve"
  /\ AllEntered(w, "solve")
  /\ sync_iter[w] # gmres_fails_at
  /\ sync_pc' = [sync_pc EXCEPT ![w] = "distribute"]
  /\ UNCHANGED <<sync_iter, sync_local_sum, sync_global_sum, gmres_fails_at,
                 picard_vars, asm_vars, post_vars, cell_vars, pipe_vars, block_vars>>

\* solver.solve throws SolverControl::NoConvergence; nothing catches it.
GmresThrows(w) ==
  /\ sync_pc[w] = "solve"
  /\ AllEntered(w, "solve")
  /\ sync_iter[w] = gmres_fails_at
  /\ sync_pc' = [sync_pc EXCEPT ![w] = "threw"]
  /\ UNCHANGED <<sync_iter, sync_local_sum, sync_global_sum, gmres_fails_at,
                 picard_vars, asm_vars, post_vars, cell_vars, pipe_vars, block_vars>>

\* constraints.distribute(solution_owned); solution = solution_owned
\* (lines 782-788).
WorkerDistribute(w) ==
  /\ sync_pc[w] = "distribute"
  /\ sync_pc' = [sync_pc EXCEPT ![w] = "measure"]
  /\ UNCHANGED <<sync_iter, sync_local_sum, sync_global_sum, gmres_fails_at,
                 picard_vars, asm_vars, post_vars, cell_vars, pipe_vars, block_vars>>

\* new_res and the loop of local_sum (lines 791-798); the worker then calls
\* MPI_Allreduce.
WorkerLocalSum(w) ==
  /\ sync_pc[w] = "measure"
  /\ \E sum \in 0..MaxVal : sync_local_sum' = [sync_local_sum EXCEPT ![w] = sum]
  /\ sync_pc' = [sync_pc EXCEPT ![w] = "allreduce"]
  /\ UNCHANGED <<sync_iter, sync_global_sum, gmres_fails_at,
                 picard_vars, asm_vars, post_vars, cell_vars, pipe_vars, block_vars>>

\* Mutant of AllreduceResult: a worker is left with its own partial sum.
AllreduceOwnPart(w) == sync_local_sum[w]

\* What MPI_Allreduce with MPI_SUM puts into global_sum of worker w: the sum
\* of the contributions of all workers, the same on every worker.
AllreduceResult(w) == MPI_SUM(sync_local_sum, NWorkers - 1)

\* MPI_Allreduce(&local_sum, &global_sum, 1, MPI_DOUBLE, MPI_SUM, ...) returns
\* (line 801).
Allreduce(w) ==
  /\ sync_pc[w] = "allreduce"
  /\ AllEntered(w, "allreduce")
  /\ sync_global_sum' = [sync_global_sum EXCEPT ![w] = AllreduceResult(w)]
  /\ sync_pc' = [sync_pc EXCEPT ![w] = "advance"]
  /\ UNCHANGED <<sync_iter, sync_local_sum, gmres_fails_at,
                 picard_vars, asm_vars, post_vars, cell_vars, pipe_vars, block_vars>>

\* solution_old = solution, the test of line 812 and, when it fails, ++iter
\* with the test of the for statement (lines 807-813, 758).  global_sum is
\* local to the block that ends here.
Advance(w) ==
  /\ sync_pc[w] = "advance"
  /\ IF BelowTol(sync_global_sum[w])
       THEN /\ sync_pc' = [sync_pc EXCEPT ![w] = "done"]
            /\ UNCHANGED sync_iter
       ELSE /\ sync_iter' = [sync_iter EXCEPT ![w] = @ + 1]
            /\ sync_pc' = [sync_pc EXCEPT ![w] =
                             IF sync_iter[w] + 1 < maxIter THEN "assemble" ELSE "done"]
  /\ sync_global_sum' = [sync_global_sum EXCEPT ![w] = 0]
  /\ UNCHANGED <<sync_local_sum, gmres_fails_at,
                 picard_vars, asm_vars, post_vars, cell_vars, pipe_vars, block_vars>>

InitSync ==
  /\ PicardIdle
  /\ AsmIdle
  /\ PostIdle
  /\ CellIdle
  /\ PipeIdle
  /\ BlockIdle
  /\ sync_pc = [w \in Workers |-> "assemble"]
  /\ sync_iter = [w \in Workers |-> 0]
  /\ sync_local_sum = [w \in Workers |-> 0]
  /\ sync_global_sum = [w \in Workers |-> 0]
  /\ gmres_fails_at \in 0..maxIter

NextSync ==
  \/ \E w \in Workers : AssembleLocal(w)
  \/ \E w \in Workers : CompressMatrix(w)
  \/ \E w \in Workers : CompressRhs(w)
  \/ \E w \in Workers : RhsNorm(w)
  \/ \E w \in Workers : GmresReturns(w)
  \/ \E w \in Workers : GmresThrows(w)
  \/ \E w \in Workers : WorkerDistribute(w)
  \/ \E w \in Workers : WorkerLocalSum(w)
  \/ \E w \in Workers : Allreduce(w)
  \/ \E w \in Workers : Advance(w)

SpecSync == InitSync /\ [][NextSync]_vars

\* Worker w is in cycle sync_iter[w], at or past the call `phase`.
AtOrPast(w, phase) ==
  /\ sync_pc[w] \in {Phases[n] : n \in 1..Len(Phases)} \cup {"threw"}
  /\ IF sync_pc[w] = "threw" THEN Rank("solve") >= Rank(phase)
                             ELSE Rank(sync_pc[w]) >= Rank(phase)

\* The cross-worker part of the order, as a predicate on one state.
FinalizedBeforeUse ==
  \A w, v \in Workers :
    \* solve of cycle k on w: assemble() of cycle k has returned on every v
    /\ AtOrPast(w, "distribute") \/ sync_pc[w] = "threw"
         => Reached(v, sync_iter[w], "l2_norm")
    \* the measured value of cycle k on w: every v is through solve and
    \* distribute of cycle k and has contributed its local_sum
    /\ AtOrPast(w, "advance") => Reached(v, sync_iter[w], "allreduce")
    \* cycle k + 1 on w: every v has contributed to the measurement of cycle k
    /\ sync_iter[w] >= 1 => Reached(v, sync_iter[w] - 1, "allreduce")

\* The step of one worker follows the program order of the cycle.
FollowsCycleOrder(w) ==
  \/ /\ sync_iter'[w] = sync_iter[w]
     /\ Rank(sync_pc[w]) < Len(Phases)
     /\ sync_pc'[w] = Phases[Rank(sync_pc[w]) + 1]
  \/ /\ sync_pc[w] = "advance"
     /\ sync_iter'[w] = sync_iter[w] + 1
     /\ sync_pc'[w] \in {"assemble", "done"}
  \/ /\ sync_pc[w] = "advance"
     /\ sync_iter'[w] = sync_iter[w]
     /\ sync_pc'[w] = "done"
  \/ /\ sync_pc[w] = "solve"
     /\ sync_iter'[w] = sync_iter[w]
     /\ sync_pc'[w] = "threw"

IterationStateLive(p) ==
  IF p = "idle" THEN {}
  ELSE {"iter", "solution_owned", "solution_old", "new_res", "solution"}

\* C21: the previous iterate is read-only during assembly and is overwritten
\* exactly once in each Picard cycle, with the solution of that cycle; the
\* iteration state does not outlive the solve that created it.
C21_PreviousIterateWrittenOncePerCycle ==
  [][ /\ pc = "assemble" => solution_old' = solution_old
      /\ (InCycle /\ solution_old' # solution_old)
           => pc = "end_of_cycle" /\ solution_old' = solution
      /\ (InCycle /\ ~InCycle') => pc = "end_of_cycle" /\ solution_old' = solution
      /\ Terminated' => IterationStateLive(pc') = {} ]_vars

\* ------------------------------------------------------------------------
\* compute_lift_drag as the workers run it (specification SpecLiftDrag):
\* every MPI process executes the function on its own; sync_pc[w] is the
\* statement worker w is at.  MPI_Reduce returns on a worker other than the
\* root as soon as its contribution is handed over, and on the root once
\* every worker has made the call; MPI_Barrier returns once every worker
\* has made the call.  The face integrals are left out: local_drag is any
\* value of the entry range.
\* ------------------------------------------------------------------------
\* The cell and face loops of worker w (lines 890-952).
IntegrateOn(w) ==
  /\ sync_pc[w] = "integrate"
  /\ \E d \in 0..MaxVal :
       /\ local_drag' = [local_drag EXCEPT ![w] = d]
       /\ local_lift' = [local_lift EXCEPT ![w] = 0 - d]
  /\ sync_pc' = [sync_pc EXCEPT ![w] = "reduce_forces"]
  /\ UNCHANGED <<sync_iter, sync_local_sum, sync_global_sum, gmres_fails_at,
                 post_pc, cell_owner, face_stress, integrated, total_drag, total_lift,
                 point_vars, log_vars, picard_vars, asm_vars, cell_vars, pipe_vars,
                 block_vars>>

\* A reduction to rank 0 returns on worker w: every worker has made the
\* call named by the statements that precede it.
ReduceReturns(w, before) ==
  w = 0 => \A v \in Workers : sync_pc[v] \notin before

\* The two MPI_Reduce(..., MPI_SUM, 0, ...) of lines 958-959 return on worker w.
ReduceForcesOn(w) ==
  /\ sync_pc[w] = "reduce_forces"
  /\ ReduceReturns(w, {"integrate"})
  /\ total_lift' = IF w = 0
                   THEN [total_lift EXCEPT ![0] = MPI_SUM(local_lift, NWorkers - 1)]
                   ELSE total_lift
  /\ total_drag' = IF w = 0
                   THEN [total_drag EXCEPT ![0] = MPI_SUM(local_drag, NWorkers - 1)]
                   ELSE total_drag
  /\ sync_pc' = [sync_pc EXCEPT ![w] = "evaluate"]
  /\ UNCHANGED <<sync_iter, sync_local_sum, sync_global_sum, gmres_fails_at,
                 post_pc, cell_owner, face_stress, integrated, local_drag, local_lift,
                 point_vars, log_vars, picard_vars, asm_vars, cell_vars, pipe_vars,
                 block_vars>>

\* The two point evaluations of worker w (lines 981-1011).
EvaluatePointsOn(w) ==
  /\ sync_pc[w] = "evaluate"
  /\ pres_point' = [pres_point EXCEPT ![w] = [i \in Points |-> LocalPointPressure(w, i)]]
  /\ sync_pc' = [sync_pc EXCEPT ![w] = "reduce_pressure"]
  /\ UNCHANGED <<sync_iter, sync_local_sum, sync_global_sum, gmres_fails_at,
                 post_pc, point_pressure, point_holders, global_pres_point, p_diff,
                 force_vars, log_vars, picard_vars, asm_vars, cell_vars, pipe_vars,
                 block_vars>>

\* The two MPI_Reduce(..., MPI_MAX, 0, ...) of lines 1018-1019 return on
\* worker w; rank 0 goes on into if (mpi_rank == 0), the others to the barrier.
ReducePressureOn(w) ==
  /\ sync_pc[w] = "reduce_pressure"
  /\ ReduceReturns(w, {"integrate", "reduce_forces", "evaluate"})
  /\ global_pres_point' =
       IF w = 0
       THEN [global_pres_point EXCEPT ![0] =
               [i \in Points |-> MPI_MAX({pres_point[v][i] : v \in Workers})]]
       ELSE global_pres_point
  /\ sync_pc' = [sync_pc EXCEPT ![w] = IF w = 0 THEN "write" ELSE "barrier"]
  /\ UNCHANGED <<sync_iter, sync_local_sum, sync_global_sum, gmres_fails_at,
                 post_pc, point_pressure, point_holders, pres_point, p_diff,
                 force_vars, log_vars, picard_vars, asm_vars, cell_vars, pipe_vars,
                 block_vars>>

\* The block of rank 0 (lines 1021-1044): p_diff and the record, or the
\* message on std::cerr when the log does not open.
WriteOnRoot ==
  /\ sync_pc[0] = "write"
  /\ p_diff' = global_pres_point[0][1] - global_pres_point[0][2]
  /\ log' = AppendRecord(log, log_opens,
               Record(total_drag[0], total_lift[0],
                      global_pres_point[0][1] - global_pres_point[0][2]))
  /\ sync_pc' = [sync_pc EXCEPT ![0] = "barrier"]
  /\ UNCHANGED <<sync_iter, sync_local_sum, sync_global_sum, gmres_fails_at,
                 post_pc, point_pressure, point_holders, pres_point, global_pres_point,
                 force_vars, log_opens, picard_vars, asm_vars, cell_vars, pipe_vars,
                 block_vars>>

\* Mutant of BarrierReturns: the barrier lets a worker through on its own.
BarrierReturnsAtOnce(w) == TRUE

\* MPI_Barrier(MPI_COMM_WORLD) returns on worker w: every worker has made the call.
BarrierReturns(w) == \A v \in Workers : sync_pc[v] \in {"barrier", "returned"}

\* MPI_Barrier returns on worker w and compute_lift_drag returns (lines 1047-1048).
BarrierOn(w) ==
  /\ sync_pc[w] = "barrier"
  /\ BarrierReturns(w)
  /\ sync_pc' = [sync_pc EXCEPT ![w] = "returned"]
  /\ UNCHANGED <<sync_iter, sync_local_sum, sync_global_sum, gmres_fails_at,
                 post_vars, picard_vars, asm_vars, cell_vars, pipe_vars, block_vars>>

\* Every point pressure, each point held by one worker, both outcomes of
\* opening the log.
InitLiftDrag ==
  /\ PicardIdle
  /\ AsmIdle
  /\ CellIdle
  /\ PipeIdle
  /\ BlockIdle
  /\ post_pc = "idle"
  /\ ForceIdle
  /\ point_pressure \in [Points -> PressureValues]
  /\ point_holders = [i \in Points |-> {(i - 1) % NWorkers}]
  /\ pres_point = [w \in Workers |-> [i \in Points |-> 0]]
  /\ global_pres_point = [w \in Workers |-> [i \in Points |-> 0]]
  /\ p_diff = "unset"
  /\ log_opens \in BOOLEAN
  /\ log = <<>>
  /\ sync_pc = [w \in Workers |-> "integrate"]
  /\ sync_iter = [w \in Workers |-> 0]
  /\ sync_local_sum = [w \in Workers |-> 0]
  /\ sync_global_sum = [w \in Workers |-> 0]
  /\ gmres_fails_at = maxIter

NextLiftDrag ==
  \/ \E w \in Workers : IntegrateOn(w)
  \/ \E w \in Workers : ReduceForcesOn(w)
  \/ \E w \in Workers : EvaluatePointsOn(w)
  \/ \E w \in Workers : ReducePressureOn(w)
  \/ WriteOnRoot
  \/ \E w \in Workers : BarrierOn(w)

SpecLiftDrag == InitLiftDrag /\ [][NextLiftDrag]_vars

\* Worker v is through its four reductions.
ReductionsCompleted(v) == sync_pc[v] \in {"write", "barrier", "returned"}

\* C22: no worker returns from compute_lift_drag before every worker has
\* completed its lift, drag and two pressure reductions, and every worker
\* gets to the final barrier and through it on every path, the one where
\* rank 0 cannot open the log included: as long as a worker has not
\* returned, some worker can take a step.
C22_BarrierBeforeReturn ==
  /\ \A w, v \in Workers : sync_pc[w] = "returned" => ReductionsCompleted(v)
  /\ (\E w \in Workers : sync_pc[w] # "returned") => ENABLED NextLiftDrag
  /\ \A w \in Workers :
       sync_pc[w] \in {"integrate", "reduce_forces", "evaluate", "reduce_pressure",
                       "write", "barrier", "returned"}

C22_Witness ==
  /\ ~log_opens
  /\ log = <<>>
  /\ total_drag[0] > 0
  /\ \A w \in Workers : sync_pc[w] = "returned"

\* ------------------------------------------------------------------------
\* Further claims about the cell loops (specification SpecCells)
\* ------------------------------------------------------------------------
\* C23: every assembly pass, of Stokes and of IncrementalStokes alike, also
\* assembles the pressure-mass matrix, on the pressure block only: after the
\* pass every entry of pressure_mass is the sum over the cells of the
\* pressure-mass term of the cell, and no entry outside the
\* pressure-pressure block holds a value.
C23_PressureMassAssembledEveryPass ==
  cells_pc = "done" =>
    /\ \A e \in Entries :
         LET at == [c \in Cells |->
                      IF e[1] \in cell_dofs[c] /\ e[2] \in cell_dofs[c]
                      THEN cell_pressure_mass_matrix(c, e[1], e[2]) ELSE 0]
         IN  pressure_mass[e] = SerialSum(at, NCells)
    /\ Populated(pressure_mass) \subseteq PressurePressure

\* ------------------------------------------------------------------------
\* Further claims about the pipeline (specification SpecPipeline)
\* ------------------------------------------------------------------------
\* C24: the Stokes problem and the Picard problem share no mutable state:
\* the hand-over copies the Stokes solution, no step of the IncrementalStokes
\* problem changes a vector or the boundary values of the Stokes object or
\* the copy the pipeline holds, and the Picard iterate changes only by the
\* steps of the IncrementalStokes problem itself.
C24_NoSharedMutableState ==
  [][ /\ pipe_pc \in {"construct", "incremental", "lift_drag"} =>
           UNCHANGED <<stokes_solution_owned, stokes_solution_ghosted, boundary_values>>
      /\ pipe_pc = "construct" => stokes_solution' = stokes_solution_ghosted'
      /\ pipe_pc = "incremental" => stokes_solution' = stokes_solution
      /\ pipe_pc # "incremental" =>
           UNCHANGED <<solution_owned, solution, solution_old, system_lin>> ]_vars

C24_Witness ==
  /\ pipe_pc = "incremental"
  /\ measured >= 1
  /\ pc = "assemble"
  /\ solution_old # stokes_solution
  /\ stokes_solution = stokes_solution_ghosted
  /\ stokes_solution_ghosted # ZeroVector

\* ------------------------------------------------------------------------
\* Further claims about the workers in the Picard loop (specification SpecSync)
\* ------------------------------------------------------------------------
\* Worker w has left solve(), by a break, by the loop test or by the
\* exception of the linear solver.
LeftLoop(w) == sync_pc[w] \in {"done", "threw"}

\* C25: all workers run the same number of Picard cycles and the same
\* sequence of collective calls: a worker that has left the loop did so in
\* the cycle and the way every other worker does, no worker is in a later
\* cycle than one that has left, and the loop cannot deadlock: as long as a
\* worker is in the loop, some worker can take a step.
C25_WorkersLeaveTogether ==
  /\ \A w, v \in Workers :
       LeftLoop(w) =>
         /\ sync_iter[v] <= sync_iter[w]
         /\ LeftLoop(v) => sync_iter[v] = sync_iter[w] /\ sync_pc[v] = sync_pc[w]
  /\ (\E w \in Workers : ~LeftLoop(w)) => ENABLED NextSync

C25_Witness ==
  \E w, v \in Workers :
    /\ sync_pc[w] = "done"
    /\ sync_iter[w] = 2
    /\ sync_pc[v] = "advance"
    /\ sync_iter[v] = 2
    /\ gmres_fails_at > 2

\* ------------------------------------------------------------------------
\* Further claims about the Picard loop (specification Spec), continued
\* ------------------------------------------------------------------------
\* C26: every Picard cycle that assembles also solves and measures: the
\* test between assembly and solve never succeeds, the linear solve that
\* follows an assembly yields the iterate of the cycle, and solve() ends
\* only from the end of a cycle or from the loop test, never with a system
\* assembled and left unsolved or unmeasured.
C26_AssemblyIsAlwaysSolved ==
  [][ /\ pc = "assemble" => pc' = "set_zero"
      /\ pc = "set_zero" => pc' = "gmres"
      /\ pc = "gmres" => pc' = "distribute"
      /\ pc = "distribute" => pc' = "measure"
      /\ pc = "measure" => pc' = "end_of_cycle" /\ measured' = measured + 1
      /\ Terminated' => pc \in {"end_of_cycle", "solve"} ]_vars

\* C27: when solve() returns after at least one cycle, the previous iterate
\* equals the returned solution, which equals the owned solution: the
\* previous iterate is overwritten before the convergence test, in the
\* cycle that ends the loop too.
C27_PreviousIterateEqualsReturnedSolution ==
  (pc = "returned" /\ measured >= 1) =>
    /\ solution_old = solution
    /\ solution = solution_owned

C27_Witness ==
  /\ pc = "returned"
  /\ measured = maxIter
  /\ ~BelowTol(update_norm_sq)
  /\ solution_old = solution
  /\ solution = solution_owned
  /\ solution # system_lin

\* C28: after solve() returns, iter equals maxIter exactly when no cycle
\* measured an update norm below update_tol; when the loop stopped on
\* convergence in cycle c (counted from 0), iter equals c and is less than
\* maxIter, also when c is the last cycle the cap allows.
C28_CounterTellsHowTheLoopEnded ==
  pc = "returned" =>
    /\ iter = maxIter <=> ~BelowTol(update_norm_sq)
    /\ BelowTol(update_norm_sq) => iter = measured - 1 /\ iter < maxIter
    /\ ~BelowTol(update_norm_sq) => measured = maxIter

C28_Witness ==
  /\ pc = "returned"
  /\ BelowTol(update_norm_sq)
  /\ measured = maxIter
  /\ iter = maxIter - 1

\* ------------------------------------------------------------------------
\* Further claims about the cell loops (specification SpecCells), continued
\* ------------------------------------------------------------------------
\* C29: IncrementalStokes::assemble resets the system matrix and the
\* right-hand side at the start of every pass, so after every pass, the
\* first or a later one, every entry is the sum of the cell terms of that
\* pass alone: the same previous iterate gives the same system again and
\* nothing of an earlier pass is left in it.
C29_AssembledSystemOfThisPassAlone ==
  (cells_pc = "done" /\ variant = "IncrementalStokes") =>
    /\ \A e \in Entries :
         system_matrix[e] =
           SerialSum([c \in Cells |-> MatrixContribution(c, e[1], e[2])], NCells)
    /\ \A i \in DoFs :
         system_rhs[i] = SerialSum([c \in Cells |-> RhsContribution(c, i)], NCells)

C29_Witness ==
  /\ cells_pc = "done"
  /\ variant = "IncrementalStokes"
  /\ iter = 1
  /\ \E e \in Entries : system_matrix[e] # 0
  /\ \E i \in DoFs : system_rhs[i] # 0

\* ------------------------------------------------------------------------
\* Further claims about the Picard loop (specification Spec): the boundary
\* of the convergence test
\* ------------------------------------------------------------------------
\* C30: the convergence test is strict.  A cycle whose update norm equals
\* update_tol exactly does not leave the loop by the break: the counter is
\* incremented and the next cycle is assembled, unless that was cycle
\* maxIter - 1, in which case the loop ends by its cap.
C30_NormAtToleranceDoesNotTerminate ==
  [][ (pc = "end_of_cycle" /\ update_norm_sq = update_tol * update_tol) =>
        /\ iter' = iter + 1
        /\ pc' = IF iter + 1 < maxIter THEN "assemble" ELSE "returned" ]_vars

C30_Witness ==
  /\ pc = "assemble"
  /\ measured >= 1
  /\ iter = measured
  /\ update_norm_sq = update_tol * update_tol

====
